---- MODULE Spec2Model ----
(***************************************************************************)
(* RDAP bootstrap: the Registry Cache (MemoryCache, DiskCache) and the     *)
(* Bootstrap Client (Download, Lookup, accessors) of openrdap/rdap.        *)
(*                                                                         *)
(* Time is a tick counter.  A file's modification time is the tick of the  *)
(* write, so two writes within one tick carry the same modification time.  *)
(* File contents are abstract byte strings: "v1" and "v2" are well-formed  *)
(* registry documents, "trunc" is a partially written (unparsable) file.   *)
(*                                                                         *)
(* The typed registries (DNSRegistry, NetRegistry, ASNRegistry,            *)
(* ServiceProviderRegistry) and the registry file parser are modelled on   *)
(* their own in SpecRegistry: strings are sequences of characters, IP      *)
(* addresses and AS numbers keep their structure at a reduced width.       *)
(***************************************************************************)
EXTENDS Integers, FiniteSets, Sequences, TLC

\* Bounds of the model.
MaxTime == 1
MaxTimeout == 1
MaxCalls == 3

Time == 0..MaxTime
Durations == 0..MaxTimeout

\* time.Hour * 24, scaled to the longest duration of the model.
DefaultCacheTimeout == MaxTimeout

\* cache.FileState
Absent == "Absent"
Good == "Good"
ShouldReload == "ShouldReload"
Expired == "Expired"

\* bootstrap.RegistryType
DNS == "DNS"
IPv4 == "IPv4"
IPv6 == "IPv6"
ASN == "ASN"
ServiceProvider == "ServiceProvider"
RegistryTypes == {DNS, IPv4, IPv6, ASN, ServiceProvider}

Filename(r) ==
    CASE r = ASN -> "asn.json"
      [] r = DNS -> "dns.json"
      [] r = IPv4 -> "ipv4.json"
      [] r = IPv6 -> "ipv6.json"
      [] r = ServiceProvider -> "serviceprovider-draft-03.json"

\* The registry types the client is asked about.  The client treats every
\* type alike but for two things: the registries of ASN, IPv4 and IPv6 parse
\* the query (and can fail on it), and every accessor freshens
\* ServiceProvider.  ASN and ServiceProvider cover both.
ClientTypes == {ASN, ServiceProvider}

\* The files the caches are asked about.
Filenames == {Filename(r) : r \in ClientTypes}

\* Byte strings a file or an HTTP body can hold.
Documents == {"v1", "v2"}
Truncated == "trunc"
Bytes == Documents \cup {Truncated}

\* Cache instances.  The DiskCache instances share one directory.
DiskCaches == {"d1", "d2", "d3"}
\* Two MemoryCache instances, one of each MemoryCache in the source tree:
\* m1 has Load(filename) ([]byte, error), m2 is the MemoryCache of
\* memory_cache.go with Load(filename) ([]byte, bool, error).
MemoryCaches == {"m1", "m2"}
IsNewMemoryCaches == {"m2"}
Caches == DiskCaches \cup MemoryCaches

Clients == {"c1"}

VARIABLES
    now,                \* time.Now()
    dir,                \* the shared cache directory: filename -> file
    lastLoadedModTime,  \* DiskCache.lastLoadedModTime, per instance
    Timeout,            \* DiskCache.Timeout / MemoryCache.Timeout
    cache,              \* MemoryCache.cache
    mtime,              \* MemoryCache.mtime
    held,               \* history: the bytes a DiskCache instance last saved or loaded
    writing,            \* the ioutil.WriteFile a DiskCache instance is in the middle of
    Cache,              \* Client.Cache
    registries,         \* Client.registries
    calls,              \* number of calls made so far
    saved,              \* history: (storage, filename) pairs ever written
    lookupDownload,     \* history: last download made by Lookup, per client and type
    last,               \* the most recent call and what it returned
    receiver,           \* the registry a Lookup is made on, or the document parsed
    input,              \* the input string of the Lookup
    result              \* what the Lookup or the parse returned

vars == <<now, dir, lastLoadedModTime, Timeout, cache, mtime, held, writing, Cache,
          registries, calls, saved, lookupDownload, last, receiver, input,
          result>>

cacheVars == <<dir, lastLoadedModTime, cache, mtime, held, writing>>
clientVars == <<Cache, registries, lookupDownload>>
lookupVars == <<receiver, input, result>>

NoFile == [present |-> FALSE, data |-> Truncated, modTime |-> 0]
NotLoaded == [haveLoaded |-> FALSE, modTime |-> 0]
NoEntry == [ok |-> FALSE, data |-> Truncated]
NoMtime == [ok |-> FALSE, time |-> 0]
NoWrite == [busy |-> FALSE, file |-> "", data |-> ""]

\* The cache storage as one value, so that a handler can thread it through
\* the cache calls it makes.
Store == [dir |-> dir, lastLoadedModTime |-> lastLoadedModTime,
          cache |-> cache, mtime |-> mtime, held |-> held]

----------------------------------------------------------------------------
(* DiskCache *)

\* modTime: os.Stat of the file.
modTime(S, filename) ==
    IF S.dir[filename].present
    THEN [err |-> FALSE, time |-> S.dir[filename].modTime]
    ELSE [err |-> TRUE, time |-> 0]

\* time.Time.After
After(t, u) == t > u

\* time.Time.Before
Before(t, u) == t < u

\* The comparison that makes a fresh file Good: the instance has loaded it
\* and the file is not newer than what it loaded.
IsLatestLoaded(fileModTime, ll) ==
    ll.haveLoaded /\ ~After(fileModTime, ll.modTime)

\* Faulty variant of the freshness test: a file as old as the timeout is
\* still fresh.
DiskFreshNotBefore(fileModTime, t, timeout) == ~Before(fileModTime, t - timeout)

\* The freshness test of DiskCache.State.
DiskFresh(fileModTime, t, timeout) == After(fileModTime, t - timeout)

\* Faulty variant of State: the latest-loaded test comes before the age test.
DiskCacheStateLoadedFirst(S, d, filename, t, timeout, initOK) ==
    IF ~initOK THEN Absent
    ELSE LET st == modTime(S, filename) IN
         IF st.err THEN Absent
         ELSE IF IsLatestLoaded(st.time, S.lastLoadedModTime[d][filename])
              THEN Good
              ELSE IF DiskFresh(st.time, t, timeout) THEN ShouldReload
                   ELSE Expired

DiskCacheState(S, d, filename, t, timeout, initOK) ==
    IF ~initOK THEN Absent
    ELSE LET st == modTime(S, filename) IN
         IF st.err THEN Absent
         ELSE IF DiskFresh(st.time, t, timeout)
              THEN IF IsLatestLoaded(st.time, S.lastLoadedModTime[d][filename])
                   THEN Good
                   ELSE ShouldReload
              ELSE Expired

\* Outcomes of the file system calls of Save: InitDir fails (or the file
\* cannot be opened), the write fails part way, the stat after the write
\* fails.
SaveIO == {"ok", "initdir_err", "write_err", "stat_err"}

\* Faulty variant of Save: the modification time of the written file is not
\* recorded.
SaveRecordsNothing(S, d, filename, t) == S.lastLoadedModTime

\* What Save records as loaded once the file is written and stat'ed.
SaveLoaded(S, d, filename, t) ==
    [S.lastLoadedModTime EXCEPT ![d][filename] =
        [haveLoaded |-> TRUE, modTime |-> t]]

DiskCacheSave(S, d, filename, data, t, io) ==
    CASE io = "initdir_err" -> [S |-> S, err |-> TRUE]
      [] io = "write_err" ->
            [S |-> [S EXCEPT !.dir[filename] =
                        [present |-> TRUE, data |-> Truncated, modTime |-> t]],
             err |-> TRUE]
      [] io = "stat_err" ->
            [S |-> [S EXCEPT !.dir[filename] =
                        [present |-> TRUE, data |-> data, modTime |-> t]],
             err |-> TRUE]
      [] io = "ok" ->
            LET W == [S EXCEPT !.dir[filename] =
                        [present |-> TRUE, data |-> data, modTime |-> t]]
            IN [S |-> [W EXCEPT !.lastLoadedModTime =
                            SaveLoaded(W, d, filename, modTime(W, filename).time),
                                !.held[d][filename] = data],
                err |-> FALSE]

\* Outcomes of the file system calls of Load.
LoadIO == {"ok", "io_err"}

\* What Load records as loaded: the modification time it stat'ed.
LoadLoaded(S, d, filename, fileModTime) ==
    [S.lastLoadedModTime EXCEPT ![d][filename] =
        [haveLoaded |-> TRUE, modTime |-> fileModTime]]

DiskCacheLoad(S, d, filename, io) ==
    LET st == modTime(S, filename) IN
    IF io = "io_err" \/ st.err
    THEN [S |-> S, err |-> TRUE, bytes |-> Truncated]
    ELSE [S |-> [S EXCEPT !.lastLoadedModTime =
                    LoadLoaded(S, d, filename, st.time),
                          !.held[d][filename] = S.dir[filename].data],
          err |-> FALSE, bytes |-> S.dir[filename].data]

----------------------------------------------------------------------------
(* MemoryCache *)

MemoryCacheSave(S, m, filename, data, t) ==
    [S |-> [S EXCEPT !.cache[m][filename] = [ok |-> TRUE, data |-> data],
                     !.mtime[m][filename] = [ok |-> TRUE, time |-> t]],
     err |-> FALSE]

MemoryCacheLoad(S, m, filename) ==
    IF ~S.cache[m][filename].ok
    THEN [S |-> S, err |-> TRUE, bytes |-> Truncated]
    ELSE [S |-> S, err |-> FALSE, bytes |-> S.cache[m][filename].data]

\* MemoryCache.Load of memory_cache.go: a file that is not in the cache
\* gives nil bytes, isNew false and a nil error.
MemoryCacheLoadIsNew(S, m, filename) ==
    IF ~S.cache[m][filename].ok
    THEN [S |-> S, err |-> FALSE, bytes |-> ""]
    ELSE [S |-> S, err |-> FALSE, bytes |-> S.cache[m][filename].data]

\* The staleness test of MemoryCache.State.
MemoryExpired(mt, t, timeout) == Before(mt + timeout, t)

MemoryCacheState(S, m, filename, t, timeout) ==
    IF ~S.mtime[m][filename].ok THEN Absent
    ELSE IF MemoryExpired(S.mtime[m][filename].time, t, timeout)
         THEN Expired
         ELSE Good

----------------------------------------------------------------------------
(* cache.RegistryCache: dispatch on the implementation *)

CacheSave(S, k, filename, data, t, io) ==
    IF k \in MemoryCaches
    THEN MemoryCacheSave(S, k, filename, data, t)
    ELSE DiskCacheSave(S, k, filename, data, t, io)

CacheLoad(S, k, filename, io) ==
    IF k \in IsNewMemoryCaches
    THEN MemoryCacheLoadIsNew(S, k, filename)
    ELSE IF k \in MemoryCaches
    THEN MemoryCacheLoad(S, k, filename)
    ELSE DiskCacheLoad(S, k, filename, io)

CacheState(S, k, filename, t, timeout) ==
    IF k \in MemoryCaches
    THEN MemoryCacheState(S, k, filename, t, timeout)
    ELSE DiskCacheState(S, k, filename, t, timeout, TRUE)

\* State as the instance reports it now, on a working file system.
State(k, filename) == CacheState(Store, k, filename, now, Timeout[k])

----------------------------------------------------------------------------
(* History and call records *)

\* The cache instances and the clients that were constructed.
Constructed == DOMAIN Timeout
ConstructedClients == DOMAIN Cache

\* Where an instance keeps its files: the shared directory, or its own maps.
Storage(k) == IF k \in DiskCaches THEN "disk" ELSE k

\* Bound: a behaviour makes at most MaxCalls calls.
CountCall ==
    /\ calls < MaxCalls
    /\ calls' = calls + 1

\* A call record: the operation, the instance or client it was called on, the
\* file, the query, the cache state the handler observed, the outcome of the
\* cache Load it made ("" when it made none), the error and the result it
\* returned, and whether it made an HTTP request.
Call(op, who, filename, query, state, load, err, ret, dl) ==
    [op |-> op, who |-> who, file |-> filename, query |-> query,
     state |-> state, load |-> load, err |-> err, ret |-> ret, dl |-> dl]

NoCall == Call("none", "", "", "", "", "", "", "", FALSE)

\* The outcome of the cache Load a handler makes on finding state st.
LoadOutcome(st, S, k, filename, io) ==
    IF st # ShouldReload THEN ""
    ELSE IF CacheLoad(S, k, filename, io).err THEN "err" ELSE "ok"

\* The error a call record shows: every failure of the HTTP round trip and
\* of the parse of the body is a download error.
ErrorKind(err) ==
    IF err \in {"transport_err", "non200", "parse_err"}
    THEN "download_err" ELSE err

----------------------------------------------------------------------------
(* Initial state: after NewDiskCache / NewMemoryCache / &Client{} *)

InitCaches(instances) ==
    /\ now = 0
    /\ dir = [f \in Filenames |-> NoFile]
    /\ lastLoadedModTime =
            [d \in instances \cap DiskCaches |-> [f \in Filenames |-> NotLoaded]]
    /\ Timeout = [k \in instances |-> DefaultCacheTimeout]
    /\ cache = [m \in instances \cap MemoryCaches |-> [f \in Filenames |-> NoEntry]]
    /\ mtime = [m \in instances \cap MemoryCaches |-> [f \in Filenames |-> NoMtime]]
    /\ held = [d \in instances \cap DiskCaches |-> [f \in Filenames |-> "none"]]
    /\ writing = [d \in instances \cap DiskCaches |-> NoWrite]
    /\ calls = 0
    /\ saved = {}
    /\ last = NoCall

NoRegistry == [nil |-> TRUE, type |-> "", json |-> ""]
NoDownload == [valid |-> FALSE, time |-> 0]

InitClients(cacheOf) ==
    /\ Cache = cacheOf
    /\ registries = [c \in DOMAIN cacheOf |-> [r \in RegistryTypes |-> NoRegistry]]
    /\ lookupDownload = [c \in DOMAIN cacheOf |-> [r \in RegistryTypes |-> NoDownload]]

\* No registry of its own is being looked up, no document parsed.
NoReceiver == [kind |-> "none"]
NoResult == [op |-> "none"]

InitNoLookup ==
    /\ receiver = NoReceiver
    /\ input = <<>>
    /\ result = NoResult

----------------------------------------------------------------------------
(* Operations on a cache instance *)

\* Time passes.
Tick ==
    /\ now < MaxTime
    /\ now' = now + 1
    /\ last' = NoCall
    /\ UNCHANGED <<cacheVars, Timeout, clientVars, calls, saved>>
    /\ UNCHANGED lookupVars

SetTimeout(k, timeout) ==
    /\ CountCall
    /\ Timeout' = [Timeout EXCEPT ![k] = timeout]
    /\ last' = Call("SetTimeout", k, "", "", "", "", "", "", FALSE)
    /\ UNCHANGED <<now, cacheVars, clientVars, saved>>
    /\ UNCHANGED lookupVars

SetStore(S) ==
    /\ dir' = S.dir
    /\ lastLoadedModTime' = S.lastLoadedModTime
    /\ cache' = S.cache
    /\ mtime' = S.mtime
    /\ held' = S.held
    /\ writing' = writing

\* Save writes the file unless InitDir (or the open) failed.
Wrote(k, io) == k \in MemoryCaches \/ io # "initdir_err"

Save(k, filename, data, io) ==
    /\ CountCall
    /\ k \in MemoryCaches => io = "ok"
    /\ LET r == CacheSave(Store, k, filename, data, now, io) IN
        /\ SetStore(r.S)
        /\ saved' = IF Wrote(k, io)
                    THEN saved \cup {<<Storage(k), filename>>}
                    ELSE saved
        /\ last' = Call("Save", k, filename, "", "", "", IF r.err THEN io ELSE "",
                        data, FALSE)
    /\ UNCHANGED <<now, Timeout, clientVars>>
    /\ UNCHANGED lookupVars

Load(k, filename, io) ==
    /\ CountCall
    /\ k \in MemoryCaches => io = "ok"
    /\ LET r == CacheLoad(Store, k, filename, io) IN
        /\ SetStore(r.S)
        /\ last' = Call("Load", k, filename, "", "", "",
                        IF r.err THEN "load_err" ELSE "",
                        IF r.err THEN "" ELSE r.bytes, FALSE)
    /\ UNCHANGED <<now, Timeout, clientVars, saved>>
    /\ UNCHANGED lookupVars

----------------------------------------------------------------------------
(* The caches on their own, called directly: either three DiskCache        *)
(* instances on one directory, or one MemoryCache of either kind.          *)

\* Files the cache-level specification works on.
CacheFiles == {Filename(ASN)}

InitCache ==
    /\ \E instances \in {DiskCaches} \cup {{m} : m \in MemoryCaches} :
            InitCaches(instances)
    /\ InitClients(<<>>)
    /\ InitNoLookup

NextCache ==
    \/ Tick
    \/ \E k \in Constructed, timeout \in Durations : SetTimeout(k, timeout)
    \/ \E k \in Constructed, f \in CacheFiles, data \in Bytes, io \in SaveIO :
            Save(k, f, data, io)
    \/ \E k \in Constructed, f \in CacheFiles, io \in LoadIO : Load(k, f, io)

SpecCache == InitCache /\ [][NextCache]_vars

----------------------------------------------------------------------------
(* Registries *)

\* parse succeeds on a well-formed registry document only.
ParsesAsRegistryFile(json) == json \in Documents

\* The service entries of a document.
Entries(json) ==
    CASE json = "v1" -> {"k1"}
      [] json = "v2" -> {"k1", "k2"}
      [] OTHER -> {}

\* Queries: a key that only the newer document serves, and a syntactically
\* malformed query.
Queries == {"k2", "malformed"}

newRegistry(registry, json) ==
    IF ParsesAsRegistryFile(json)
    THEN [err |-> FALSE, s |-> [nil |-> FALSE, type |-> registry, json |-> json]]
    ELSE [err |-> TRUE, s |-> NoRegistry]

\* The registries whose Lookup parses the query and can fail on it.
ParsesQuery(type) == type \in {ASN, IPv4, IPv6}

\* Registry.Lookup: an error for a malformed query, else the matching entry
\* ("" when nothing matches).
RegistryLookup(s, query) ==
    IF ParsesQuery(s.type) /\ query = "malformed"
    THEN [err |-> TRUE, entry |-> "nil"]
    ELSE [err |-> FALSE,
          entry |-> IF query \in Entries(s.json) THEN query ELSE ""]

----------------------------------------------------------------------------
(* bootstrap.Client *)

\* What the HTTP round trip yields: an error of HTTP.Do (a transport error or
\* a cancelled context), a status other than 200, or a 200 response body.
HTTPErrors == {"transport_err", "non200"}
Responses == HTTPErrors \cup Bytes

download(registry, resp) ==
    IF resp \in HTTPErrors
    THEN [json |-> "", s |-> NoRegistry, err |-> resp]
    ELSE LET n == newRegistry(registry, resp) IN
         IF n.err
         THEN [json |-> resp, s |-> NoRegistry, err |-> "parse_err"]
         ELSE [json |-> resp, s |-> n.s, err |-> ""]

\* Faulty variant of the install: every registry goes to the ServiceProvider
\* slot.
InstallInServiceProvider(regs, registry, s) ==
    [regs EXCEPT ![ServiceProvider] = s]

\* c.registries[registry] = s
Install(regs, registry, s) == [regs EXCEPT ![registry] = s]

\* Faulty variant of DownloadWithContext: the body is saved to the cache
\* before it is parsed.
DownloadSavesBeforeParse(S, regs, k, registry, resp, io, t) ==
    IF resp \in HTTPErrors
    THEN [S |-> S, regs |-> regs, err |-> resp]
    ELSE LET sv == CacheSave(S, k, Filename(registry), resp, t, io)
             n == newRegistry(registry, resp)
         IN IF sv.err
            THEN [S |-> sv.S, regs |-> regs, err |-> "save_err"]
            ELSE IF n.err
                 THEN [S |-> sv.S, regs |-> regs, err |-> "parse_err"]
                 ELSE [S |-> sv.S, regs |-> [regs EXCEPT ![registry] = n.s],
                       err |-> ""]

\* Faulty variant of DownloadWithContext: the registry is installed before
\* the body is saved to the cache.
DownloadInstallsBeforeSave(S, regs, k, registry, resp, io, t) ==
    LET d == download(registry, resp) IN
    IF d.err # ""
    THEN [S |-> S, regs |-> regs, err |-> d.err]
    ELSE LET sv == CacheSave(S, k, Filename(registry), d.json, t, io) IN
         [S |-> sv.S, regs |-> Install(regs, registry, d.s),
          err |-> IF sv.err THEN "save_err" ELSE ""]

DownloadWithContext(S, regs, k, registry, resp, io, t) ==
    LET d == download(registry, resp) IN
    IF d.err # ""
    THEN [S |-> S, regs |-> regs, err |-> d.err]
    ELSE LET sv == CacheSave(S, k, Filename(registry), d.json, t, io) IN
         IF sv.err
         THEN [S |-> sv.S, regs |-> regs, err |-> "save_err"]
         ELSE [S |-> sv.S, regs |-> Install(regs, registry, d.s), err |-> ""]

\* Faulty variant of reloadFromCache: the registry built from the cached
\* bytes is not installed.
reloadWithoutInstall(S, regs, k, registry, io) ==
    LET ld == CacheLoad(S, k, Filename(registry), io) IN
    IF ld.err
    THEN [S |-> ld.S, regs |-> regs, err |-> TRUE]
    ELSE [S |-> ld.S, regs |-> regs, err |-> newRegistry(registry, ld.bytes).err]

reloadFromCache(S, regs, k, registry, io) ==
    LET ld == CacheLoad(S, k, Filename(registry), io) IN
    IF ld.err
    THEN [S |-> ld.S, regs |-> regs, err |-> TRUE]
    ELSE LET n == newRegistry(registry, ld.bytes) IN
         IF n.err
         THEN [S |-> ld.S, regs |-> regs, err |-> TRUE]
         ELSE [S |-> ld.S, regs |-> Install(regs, registry, n.s), err |-> FALSE]

freshenFromCache(S, regs, k, registry, t, timeout, io) ==
    IF CacheState(S, k, Filename(registry), t, timeout) = ShouldReload
    THEN reloadFromCache(S, regs, k, registry, io)
    ELSE [S |-> S, regs |-> regs, err |-> FALSE]

\* Faulty variant of the end of Lookup: a registry that rejects the query is
\* dropped.
DelegateDropsOnError(S, regs, registry, query, reload, reloadErr, dl) ==
    LET a == RegistryLookup(regs[registry], query) IN
    [S |-> S,
     regs |-> IF a.err THEN [regs EXCEPT ![registry] = NoRegistry] ELSE regs,
     err |-> IF a.err THEN "query_err" ELSE "",
     ret |-> a.entry, reload |-> reload, reloadErr |-> reloadErr, dl |-> dl]

\* The end of Lookup: the query goes to the registry of the question's type.
\* The method call on a nil Registry panics.
Delegate(S, regs, registry, query, reload, reloadErr, dl) ==
    IF regs[registry].nil
    THEN [S |-> S, regs |-> regs, err |-> "panic", ret |-> "nil",
          reload |-> reload, reloadErr |-> reloadErr, dl |-> dl]
    ELSE LET a == RegistryLookup(regs[registry], query) IN
         [S |-> S, regs |-> regs, err |-> IF a.err THEN "query_err" ELSE "",
          ret |-> a.entry, reload |-> reload, reloadErr |-> reloadErr, dl |-> dl]

\* Faulty variant of the download condition: every Lookup downloads.
AlwaysDownload(s, forceDownload) == TRUE

\* Faulty variant of the download condition: a failed reload from the cache
\* does not force a download.
NeedDownloadOnlyIfNil(s, forceDownload) == s.nil

\* Faulty variant of the download condition: Lookup downloads only when a
\* reload from the cache failed.
NeedDownloadOnlyIfForced(s, forceDownload) == forceDownload

\* The condition under which Lookup downloads.
NeedDownload(s, forceDownload) == s.nil \/ forceDownload

ClientLookup(S, regs, k, registry, query, t, timeout, loadIO, resp, saveIO) ==
    LET reload == CacheState(S, k, Filename(registry), t, timeout) = ShouldReload
        rl == IF reload
              THEN reloadFromCache(S, regs, k, registry, loadIO)
              ELSE [S |-> S, regs |-> regs, err |-> FALSE]
        forceDownload == rl.err
    IN IF NeedDownload(rl.regs[registry], forceDownload)
       THEN LET d == DownloadWithContext(rl.S, rl.regs, k, registry, resp, saveIO, t) IN
            IF d.err # ""
            THEN [S |-> d.S, regs |-> d.regs, err |-> d.err, ret |-> "nil",
                  reload |-> reload, reloadErr |-> rl.err, dl |-> TRUE]
            ELSE Delegate(d.S, d.regs, registry, query, reload, rl.err, TRUE)
       ELSE Delegate(rl.S, rl.regs, registry, query, reload, rl.err, FALSE)

\* The registry type whose file an accessor freshens from the cache.
AccessorFreshens(registry) == ServiceProvider

\* The pairs a call has written, added to the history.
Written(S, k, filename) ==
    IF S.dir[filename] # dir[filename]
       \/ (k \in MemoryCaches /\ S.mtime[k][filename].ok)
    THEN saved \cup {<<Storage(k), filename>>}
    ELSE saved

\* Download(registry) / DownloadWithContext(ctx, registry)
Download(c, registry, resp, io) ==
    /\ CountCall
    /\ \E r \in {DownloadWithContext(Store, registries[c], Cache[c], registry,
                                       resp, io, now)} :
        /\ SetStore(r.S)
        /\ registries' = [registries EXCEPT ![c] = r.regs]
        /\ saved' = Written(r.S, Cache[c], Filename(registry))
        /\ lookupDownload' = [lookupDownload EXCEPT ![c][registry] = NoDownload]
        /\ last' = Call("Download", c, Filename(registry), "", "", "",
                        ErrorKind(r.err), "", TRUE)
    /\ UNCHANGED <<now, Timeout, Cache>>
    /\ UNCHANGED lookupVars

\* Lookup(question)
Lookup(c, registry, query, loadIO, resp, saveIO) ==
    /\ CountCall
    /\ \E r \in {ClientLookup(Store, registries[c], Cache[c], registry, query,
                             now, Timeout[Cache[c]], loadIO, resp, saveIO)} :
        /\ SetStore(r.S)
        /\ registries' = [registries EXCEPT ![c] = r.regs]
        /\ saved' = Written(r.S, Cache[c], Filename(registry))
        /\ lookupDownload' = [lookupDownload EXCEPT ![c][registry] =
                IF r.reloadErr \/ r.err \notin {"", "query_err"} THEN NoDownload
                ELSE IF r.dl THEN [valid |-> TRUE, time |-> now]
                ELSE @]
        /\ last' = Call("Lookup", c, Filename(registry), query,
                        State(Cache[c], Filename(registry)),
                        LoadOutcome(State(Cache[c], Filename(registry)), Store,
                                    Cache[c], Filename(registry), loadIO),
                        ErrorKind(r.err), r.ret, r.dl)
    /\ UNCHANGED <<now, Timeout, Cache>>
    /\ UNCHANGED lookupVars

\* ASN() / DNS() / IPv4() / IPv6() / ServiceProvider()
Accessor(c, registry, io) ==
    /\ CountCall
    /\ LET r == freshenFromCache(Store, registries[c], Cache[c],
                                 AccessorFreshens(registry), now,
                                 Timeout[Cache[c]], io) IN
        /\ SetStore(r.S)
        /\ registries' = [registries EXCEPT ![c] = r.regs]
        /\ last' = Call("Accessor", c, Filename(registry), "",
                        State(Cache[c], Filename(registry)),
                        LoadOutcome(State(Cache[c], Filename(AccessorFreshens(registry))),
                                    Store, Cache[c],
                                    Filename(AccessorFreshens(registry)), io),
                        "",
                        IF r.regs[registry].nil THEN "nil"
                        ELSE r.regs[registry].json, FALSE)
    /\ UNCHANGED <<now, Timeout, Cache, saved, lookupDownload>>
    /\ UNCHANGED lookupVars

\* Another process, with a DiskCache of its own on the same directory, saves
\* a file: this process sees the directory change and nothing else.
OtherProcessSave(filename, data, io) ==
    /\ CountCall
    /\ LET other == [Store EXCEPT !.lastLoadedModTime =
                        [d \in {"other"} |-> [f \in Filenames |-> NotLoaded]]]
           r == DiskCacheSave([other EXCEPT !.held =
                                 [d \in {"other"} |-> [f \in Filenames |-> "none"]]],
                              "other", filename, data, now, io)
       IN /\ dir' = r.S.dir
          /\ saved' = IF Wrote("other", io)
                      THEN saved \cup {<<"disk", filename>>}
                      ELSE saved
          /\ last' = Call("OtherProcessSave", "other", filename, "", "", "",
                          IF r.err THEN io ELSE "", data, FALSE)
    /\ UNCHANGED <<now, lastLoadedModTime, cache, mtime, held, writing, Timeout,
                   clientVars>>
    /\ UNCHANGED lookupVars

----------------------------------------------------------------------------
(* A client, with a MemoryCache (the default) or with a DiskCache on a     *)
(* directory that other processes write too.                               *)

Init ==
    \E k \in {"m1", "d1"} :
        /\ InitCaches({k})
        /\ InitClients([c \in Clients |-> k])
        /\ InitNoLookup

\* The inputs a call consumes: an outcome is drawn only for the file system
\* and HTTP calls the handler actually makes.
SaveOutcomes(k, resp) ==
    IF k \in DiskCaches /\ resp \in Documents THEN SaveIO ELSE {"ok"}

LoadOutcomes(k, filename) ==
    IF k \in DiskCaches /\ State(k, filename) = ShouldReload
    THEN LoadIO ELSE {"ok"}

\* The queries asked of a type: a registry that does not parse its query
\* treats a malformed one like any query without a match.
QueriesOf(registry) ==
    IF ParsesQuery(registry) THEN Queries ELSE Queries \ {"malformed"}

\* What this process sees of another process's Save: a complete file or a
\* partly written one.
OtherProcessIO == {"ok", "write_err"}

\* The timeouts the client's cache is given: the default and zero.
ClientTimeouts == {0, DefaultCacheTimeout}

LookupResponses(c, registry, loadIO) ==
    IF ClientLookup(Store, registries[c], Cache[c], registry, "k2", now,
                    Timeout[Cache[c]], loadIO, "v1", "ok").dl
    THEN Responses ELSE {"v1"}

Next ==
    \/ Tick
    \/ \E k \in Constructed, timeout \in ClientTimeouts : SetTimeout(k, timeout)
    \/ \E c \in ConstructedClients, r \in ClientTypes, resp \in Responses :
        \E io \in SaveOutcomes(Cache[c], resp) : Download(c, r, resp, io)
    \/ \E c \in ConstructedClients, r \in ClientTypes :
        \E q \in QueriesOf(r) :
        \E loadIO \in LoadOutcomes(Cache[c], Filename(r)) :
        \E resp \in LookupResponses(c, r, loadIO) :
        \E saveIO \in SaveOutcomes(Cache[c], resp) :
            Lookup(c, r, q, loadIO, resp, saveIO)
    \/ \E c \in ConstructedClients, r \in ClientTypes :
        \E io \in LoadOutcomes(Cache[c], Filename(AccessorFreshens(r))) :
            Accessor(c, r, io)
    \/ \E r \in ClientTypes, data \in Documents, io \in OtherProcessIO :
            /\ "d1" \in Constructed
            /\ OtherProcessSave(Filename(r), data, io)

Spec == Init /\ [][Next]_vars

----------------------------------------------------------------------------
(* Properties *)

\* The step is a Lookup of client c for a question of type r.
LookupStep(c, r) ==
    /\ last'.op = "Lookup"
    /\ last'.who = c
    /\ last'.file = Filename(r)

\* The step is a Download or a Lookup of client c for type r.
FetchStep(c, r) ==
    /\ last'.op \in {"Download", "Lookup"}
    /\ last'.who = c
    /\ last'.file = Filename(r)

\* The entry of instance k for file f, and its age.
HasEntry(k, f) == IF k \in DiskCaches THEN dir[f].present ELSE mtime[k][f].ok
EntryTime(k, f) == IF k \in DiskCaches THEN dir[f].modTime ELSE mtime[k][f].time
Age(k, f) == now - EntryTime(k, f)

\* C1: Lookup makes a network download when, once the cache has been
\* consulted, the client holds no registry of the question's type, and also
\* whenever the cache reports Expired for that type's file, even though a
\* registry of that type is already held.
C1_LookupDownloadsWhenMissingOrExpired ==
    [][\A c \in ConstructedClients, r \in ClientTypes :
        (/\ LookupStep(c, r)
         /\ \/ registries[c][r].nil /\ last'.state # ShouldReload
            \/ last'.state = Expired)
        => last'.dl]_vars

\* C2: in a sequence of Lookups of one client and one type in which no
\* download, cache load or parse fails and Download is not called, a Lookup
\* downloads again only when a full cache timeout has passed since the last
\* Lookup download; and a Lookup made while the cache reports Good for a type
\* already held downloads nothing.
C2_AtMostOneLookupDownloadPerWindow ==
    [][\A c \in ConstructedClients, r \in ClientTypes :
        LookupStep(c, r) =>
            /\ (~registries[c][r].nil /\ last'.state = Good) => ~last'.dl
            /\ (last'.dl /\ lookupDownload[c][r].valid /\ lookupDownload'[c][r].valid)
                => now - lookupDownload[c][r].time >= Timeout[Cache[c]]]_vars

\* A Lookup within the timeout window of an earlier Lookup download, answered
\* without a download.
C2_Witness ==
    /\ last.op = "Lookup"
    /\ last.err = ""
    /\ ~last.dl
    /\ \E r \in ClientTypes :
        /\ Filename(r) = last.file
        /\ lookupDownload[last.who][r].valid
        /\ now - lookupDownload[last.who][r].time < Timeout[Cache[last.who]]

\* C3: DiskCache instances A and B share one directory.  (i) When A has saved
\* f and B does not hold the bytes A saved, B reports ShouldReload for f while
\* the timeout has not elapsed.  (ii) After a successful Load of f by B, B
\* reports Good while the timeout has not elapsed.  (iii) A Load by B changes
\* the State of no other instance.
C3_OtherInstanceShouldReloadUntilLoad ==
    [][\A b \in Constructed \cap DiskCaches, f \in CacheFiles :
        /\ (/\ last'.op = "Save"
            /\ last'.err = ""
            /\ last'.file = f
            /\ last'.who \in DiskCaches \ {b}
            /\ held'[b][f] # last'.ret
            /\ DiskFresh(dir'[f].modTime, now', Timeout'[b]))
           => State(b, f)' = ShouldReload
        /\ (/\ last'.op = "Load"
            /\ last'.err = ""
            /\ last'.file = f
            /\ last'.who = b
            /\ DiskFresh(dir'[f].modTime, now', Timeout'[b]))
           => State(b, f)' = Good
        /\ (last'.op = "Load" /\ last'.file = f /\ last'.who = b)
           => \A a \in (Constructed \cap DiskCaches) \ {b} :
                State(a, f)' = State(a, f)]_vars

\* C4: for every cache instance and entry, State is Expired (so neither Good
\* nor ShouldReload) when the entry's age exceeds the timeout, whether or not
\* the instance has loaded the current version; State is not Expired when the
\* age is less than the timeout; with a timeout of zero every entry is
\* Expired once time has passed.
C4_StateFollowsAge ==
    \A k \in Constructed, f \in Filenames :
        HasEntry(k, f) =>
            /\ Age(k, f) > Timeout[k] => State(k, f) = Expired
            /\ Age(k, f) < Timeout[k] => State(k, f) # Expired
            /\ (Timeout[k] = 0 /\ Age(k, f) > 0) => State(k, f) = Expired

\* A DiskCache entry older than the timeout whose current version the
\* instance has loaded.
C4_Witness ==
    \E d \in Constructed \cap DiskCaches, f \in CacheFiles :
        /\ dir[f].present
        /\ Age(d, f) > Timeout[d]
        /\ IsLatestLoaded(dir[f].modTime, lastLoadedModTime[d][f])
        /\ State(d, f) = Expired

\* C5: State is Absent for a file that was never saved; right after an
\* instance's own successful Save, with the timeout not elapsed, State is
\* Good and Load returns exactly the saved bytes; a MemoryCache never
\* reports ShouldReload.
C5_AbsentUntilSavedGoodAfterOwnSave ==
    /\ \A k \in Constructed, f \in Filenames :
        <<Storage(k), f>> \notin saved => State(k, f) = Absent
    /\ \A k \in Constructed, f \in Filenames :
        (/\ last.op = "Save"
         /\ last.err = ""
         /\ last.who = k
         /\ last.file = f
         /\ Timeout[k] > 0)
        => /\ State(k, f) = Good
           /\ ~CacheLoad(Store, k, f, "ok").err
           /\ CacheLoad(Store, k, f, "ok").bytes = last.ret
    /\ \A m \in Constructed \cap MemoryCaches, f \in Filenames :
        State(m, f) # ShouldReload

\* A DiskCache right after its own successful Save.
C5_Witness ==
    /\ last.op = "Save"
    /\ last.err = ""
    /\ last.who \in DiskCaches
    /\ Timeout[last.who] > 0
    /\ State(last.who, last.file) = Good
    /\ held[last.who][last.file] = last.ret

\* C6: when the cache reports ShouldReload and the cached bytes load and
\* parse, Lookup replaces the registry of that type with one built from the
\* cached bytes, answers from it without a network download, and the cache
\* then reports Good for the client's cache instance.
C6_LookupReloadsFromCache ==
    [][\A c \in ConstructedClients, r \in ClientTypes :
        (/\ LookupStep(c, r)
         /\ last'.state = ShouldReload
         /\ last'.load = "ok"
         /\ ParsesAsRegistryFile(dir[Filename(r)].data))
        => /\ registries'[c][r] = newRegistry(r, dir[Filename(r)].data).s
           /\ ~last'.dl
           /\ last'.ret = RegistryLookup(registries'[c][r], last'.query).entry
           /\ State(Cache[c], Filename(r))' = Good]_vars

\* A Lookup that found ShouldReload and answered from the newer document of
\* the cache, without a download.
C6_Witness ==
    /\ last.op = "Lookup"
    /\ last.state = ShouldReload
    /\ last.load = "ok"
    /\ ~last.dl
    /\ last.ret = "k2"
    /\ State(Cache[last.who], last.file) = Good

\* C7: a download that fails (transport error, cancelled context, non-200
\* status, unparsable body) makes Download or Lookup return an error, with no
\* answer from Lookup; the cache contents and every registry of the client
\* stay as they were.
C7_FailedDownloadChangesNothing ==
    [][\A c \in ConstructedClients, r \in ClientTypes :
        (FetchStep(c, r) /\ last'.err = "download_err")
        => /\ last'.op = "Lookup" => last'.ret = "nil"
           /\ registries' = registries
           /\ dir' = dir
           /\ cache' = cache
           /\ mtime' = mtime]_vars

\* A Lookup whose download failed while the client held a registry of the
\* type.
C7_Witness ==
    /\ last.op = "Lookup"
    /\ last.err = "download_err"
    /\ last.ret = "nil"
    /\ \E r \in ClientTypes :
        /\ Filename(r) = last.file
        /\ ~registries[last.who][r].nil

\* C8: Download and Lookup for one type leave the registries of every other
\* type of that client as they were, and a successful Download installs the
\* registry of its type.
C8_OtherTypesUntouched ==
    [][\A c \in ConstructedClients, r \in RegistryTypes :
        FetchStep(c, r)
        => /\ \A r2 \in RegistryTypes \ {r} :
                registries'[c][r2] = registries[c][r2]
           /\ (last'.op = "Download" /\ last'.err = "")
                => ~registries'[c][r].nil]_vars

\* A successful Download after which the registry of its type is held and
\* no other is.
C8_Witness ==
    /\ last.op = "Download"
    /\ last.err = ""
    /\ \E r \in ClientTypes :
        /\ Filename(r) = last.file
        /\ ~registries[last.who][r].nil
        /\ \A r2 \in RegistryTypes \ {r} : registries[last.who][r2].nil

\* C9: on a client that holds no registry and whose DiskCache has a fresh,
\* valid file of a type, just saved by another client and loadable, the
\* accessor of that type returns a registry (not nil); no accessor makes an
\* HTTP request.
C9_AccessorReturnsCachedRegistry ==
    [][\A c \in ConstructedClients, r \in ClientTypes :
        (/\ last'.op = "Accessor"
         /\ last'.who = c
         /\ last'.file = Filename(r))
        => /\ ~last'.dl
           /\ (/\ Cache[c] \in DiskCaches
               /\ last.op = "OtherProcessSave"
               /\ last.err = ""
               /\ last.file = Filename(r)
               /\ \A t \in RegistryTypes : registries[c][t].nil
               /\ last'.state = ShouldReload
               /\ last'.load # "err"
               /\ ParsesAsRegistryFile(dir[Filename(r)].data))
              => last'.ret # "nil"]_vars

\* The next Lookup of client c with a well-formed query of type r is answered
\* from the registry the client holds, without a download.
NextLookupFromInstalled(c, r) ==
    \A q \in Queries \ {"malformed"} :
    \A loadIO \in LoadOutcomes(Cache[c], Filename(r)) :
    \A resp \in LookupResponses(c, r, loadIO) :
    \A saveIO \in SaveOutcomes(Cache[c], resp) :
    \A n \in {ClientLookup(Store, registries[c], Cache[c], r, q, now,
                            Timeout[Cache[c]], loadIO, resp, saveIO)} :
        /\ ~n.dl
        /\ n.err = ""
        /\ n.regs = registries[c]
        /\ n.ret = RegistryLookup(registries[c][r], q).entry

\* C10 as stated: a Lookup that fails only because the query is malformed
\* leaves the installed registry of that type and the cache as they were and
\* downloads nothing, and the next Lookup with a well-formed query is
\* answered from that registry without a download.
C10_MalformedQueryChangesNothing ==
    [][\A c \in ConstructedClients, r \in ClientTypes :
        (LookupStep(c, r) /\ last'.err = "query_err" /\ ~registries[c][r].nil)
        => /\ registries' = registries
           /\ dir' = dir
           /\ cache' = cache
           /\ mtime' = mtime
           /\ ~last'.dl
           /\ NextLookupFromInstalled(c, r)']_vars

\* C10 amended: a Lookup that fails only because the query is malformed
\* leaves a registry of that type installed; when the cache did not report
\* ShouldReload at the call, the registry and the cache are as they were and
\* nothing was downloaded; the next Lookup with a well-formed query is
\* answered from the installed registry without a download.
C10_MalformedQueryKeepsRegistry ==
    [][\A c \in ConstructedClients, r \in ClientTypes :
        (LookupStep(c, r) /\ last'.err = "query_err" /\ ~registries[c][r].nil)
        => /\ ~registries'[c][r].nil
           /\ last'.state # ShouldReload
                => /\ registries' = registries
                   /\ dir' = dir
                   /\ cache' = cache
                   /\ mtime' = mtime
                   /\ ~last'.dl
           /\ NextLookupFromInstalled(c, r)']_vars

\* A Lookup with a malformed query on a client that holds the registry, with
\* the cache not reporting ShouldReload.
C10_Witness ==
    /\ last.op = "Lookup"
    /\ last.err = "query_err"
    /\ last.state \in {Good, Expired}
    /\ ~last.dl
    /\ \E r \in ClientTypes :
        /\ Filename(r) = last.file
        /\ ~registries[last.who][r].nil

-----------------------------------------------------------------------------
(* Strings *)

\* A string is the sequence of its characters, each a one-character string.
\* The longest input string of a Lookup.
MaxLen == 4

StringsOver(alphabet) == UNION {[1..n -> alphabet] : n \in 0..MaxLen}

\* unicode.ToLower on the letters of the model's alphabets.
ToLowerChar(c) ==
    CASE c = "A" -> "a"
      [] c = "B" -> "b"
      [] c = "S" -> "s"
      [] OTHER -> c

ToLower(s) == [i \in 1..Len(s) |-> ToLowerChar(s[i])]

HasSuffix(s, suffix) ==
    /\ Len(s) >= Len(suffix)
    /\ SubSeq(s, Len(s) - Len(suffix) + 1, Len(s)) = suffix

TrimSuffix(s, suffix) ==
    IF HasSuffix(s, suffix) THEN SubSeq(s, 1, Len(s) - Len(suffix)) ELSE s

\* Go's zero-based index of the first c in s, -1 when there is none.
IndexByte(s, c) ==
    LET at == {i \in 1..Len(s) : s[i] = c}
    IN  IF at = {} THEN -1 ELSE (CHOOSE i \in at : \A j \in at : i <= j) - 1

LastIndexByte(s, c) ==
    LET at == {i \in 1..Len(s) : s[i] = c}
    IN  IF at = {} THEN -1 ELSE (CHOOSE i \in at : \A j \in at : i >= j) - 1

\* s[from:] with Go's zero-based from.
SliceFrom(s, from) == SubSeq(s, from + 1, Len(s))

\* The URL lists of a registry's entries.
URLLists == {<<"u1">>, <<"u2", "u1">>}

\* bootstrap.Result and the error return of Registry.Lookup.
Result(op, URLs, Query, Entry) ==
    [op |-> op, err |-> FALSE, URLs |-> URLs, Query |-> Query, Entry |-> Entry]

Failed(op) ==
    [op |-> op, err |-> TRUE, URLs |-> <<>>, Query |-> <<>>, Entry |-> <<>>]

-----------------------------------------------------------------------------
(* DNSRegistry *)

\* The keys a DNS registry document can hold: the root, a TLD, a second
\* level domain.
DNSKeys == {<<>>, <<"a">>, <<"b", ".", "a">>}

DNSRegistries ==
    {[kind |-> DNS, DNS |-> m] : m \in UNION {[K -> URLLists] : K \in SUBSET DNSKeys}}

DNSInputs == StringsOver({"a", "B", "."})

\* The loop of DNSRegistry.Lookup with the last label kept instead of the
\* leftmost label stripped.
RECURSIVE DNSMatchLastLabel(_, _)
DNSMatchLastLabel(d, fqdn) ==
    IF fqdn \in DOMAIN d.DNS \/ fqdn = <<>>
    THEN fqdn
    ELSE LET index == LastIndexByte(fqdn, ".")
         IN  IF index = -1
             THEN DNSMatchLastLabel(d, <<>>)
             ELSE DNSMatchLastLabel(d, SliceFrom(fqdn, index + 1))

\* The loop of DNSRegistry.Lookup: the name the loop ends on.
RECURSIVE DNSMatch(_, _)
DNSMatch(d, fqdn) ==
    IF fqdn \in DOMAIN d.DNS \/ fqdn = <<>>
    THEN fqdn
    ELSE LET index == IndexByte(fqdn, ".")
         IN  IF index = -1
             THEN DNSMatch(d, <<>>)
             ELSE DNSMatch(d, SliceFrom(fqdn, index + 1))

DNSRegistryLookup(d, in) ==
    LET name == ToLower(TrimSuffix(in, <<".">>))
        fqdn == DNSMatch(d, name)
        urls == IF fqdn \in DOMAIN d.DNS THEN d.DNS[fqdn] ELSE <<>>
    IN  Result("DNSRegistry.Lookup", urls, name, fqdn)

-----------------------------------------------------------------------------
(* NetRegistry *)

\* Address widths: 8 * net.IPv4len and 8 * net.IPv6len, scaled.
IPv4Bits == 1
IPv6Bits == IPv4Bits + 1

\* The most networks a registry of the model holds.
MaxNets == 2

\* numIPBytesForVersion(ipVersion) * 8
numIPBits(ipVersion) == IF ipVersion = 4 THEN IPv4Bits ELSE IPv6Bits

\* The input of NetRegistry.Lookup is a sequence of tokens: an IP address
\* literal of either family, "/", a decimal number, or text that is none of
\* these (such as "41." or "2001").
IPToken(version, addr) == [tok |-> "ip", version |-> version, n |-> addr]
Slash == [tok |-> "/", version |-> 0, n |-> 0]
NumToken(n) == [tok |-> "num", version |-> 0, n |-> n]
Junk == [tok |-> "junk", version |-> 0, n |-> 0]

Addresses(version) == {IPToken(version, a) : a \in 0..(2^numIPBits(version) - 1)}
AddressTokens == Addresses(4) \cup Addresses(6)

NetInputs ==
    LET first == AddressTokens \cup {Junk}
        second == {NumToken(n) : n \in 0..(IPv6Bits + 1)} \cup {Junk}
    IN  {<<a>> : a \in first}
          \cup {<<a, Slash, m>> : a \in first, m \in second}
          \cup {<<a, Slash>> : a \in Addresses(4)}

\* net.IPNet
IPNet(version, addr, mask) == [version |-> version, IP |-> addr, Mask |-> mask]

\* IP.Mask(CIDRMask(ones, bits))
MaskIP(version, addr, ones) ==
    addr - (addr % (2^(numIPBits(version) - ones)))

\* IPNet.Contains(ip)
Contains(ipnet, version, addr) ==
    /\ version = ipnet.version
    /\ MaskIP(version, addr, ipnet.Mask) = ipnet.IP

\* IPNet.String()
IPNetString(ipnet) ==
    <<IPToken(ipnet.version, ipnet.IP), Slash, NumToken(ipnet.Mask)>>

\* net.ParseCIDR: the address and the mask length on both sides of the "/"
\* must parse and the mask length must fit the family of the address.
ParseCIDROK(s) ==
    /\ Len(s) = 3
    /\ s[1].tok = "ip"
    /\ s[2] = Slash
    /\ s[3].tok = "num"
    /\ s[3].n <= numIPBits(s[1].version)

ParseCIDR(s) ==
    IPNet(s[1].version, MaskIP(s[1].version, s[1].n, s[3].n), s[3].n)

\* All networks of a family, and the URL list the documents of the model
\* give each.
Networks(version) ==
    {IPNet(version, MaskIP(version, a, m), m) :
        a \in 0..(2^numIPBits(version) - 1), m \in 0..numIPBits(version)}

NetURLs(ipnet) ==
    IF (ipnet.Mask + ipnet.IP) % 2 = 0 THEN <<"u1">> ELSE <<"u2", "u1">>

NetEntry(ipnet) == [Net |-> ipnet, URLs |-> NetURLs(ipnet)]

\* sort.Sort(netEntrySorter(nets)) on networks of distinct addresses.
RECURSIVE SortNetEntries(_)
SortNetEntries(nets) ==
    IF nets = {}
    THEN <<>>
    ELSE LET least == CHOOSE e \in nets : \A o \in nets : e.Net.IP <= o.Net.IP
         IN  <<least>> \o SortNetEntries(nets \ {least})

\* NewNetRegistry on the networks a document's keys parse to.
NewNetRegistry(nets, ipVersion) ==
    [kind |-> IF ipVersion = 4 THEN IPv4 ELSE IPv6,
     ipVersion |-> ipVersion,
     Networks |-> [size \in {e.Mask : e \in nets} |->
                        SortNetEntries({NetEntry(e) : e \in {x \in nets : x.Mask = size}})]]

NetRegistriesOf(ipVersion) ==
    {NewNetRegistry(nets, ipVersion) :
        nets \in {N \in SUBSET Networks(ipVersion) : Cardinality(N) <= MaxNets}}

NetRegistries == NetRegistriesOf(4) \cup NetRegistriesOf(6)

\* sort.Search(n, f), with f given as the sequence of its values on 0..n-1.
RECURSIVE Search(_, _, _)
Search(i, j, f) ==
    IF i < j
    THEN LET h == (i + j) \div 2
         IN  IF ~f[h + 1] THEN Search(h + 1, j, f) ELSE Search(i, h, f)
    ELSE i

\* The orders in which range visits the keys of a map.
Orders(keys) ==
    {o \in [1..Cardinality(keys) -> keys] :
        \A i, j \in 1..Cardinality(keys) : i # j => o[i] # o[j]}

NoBest == [Entry |-> <<>>, Mask |-> 0, URLs |-> <<>>]

\* The loop of NetRegistry.Lookup without the test against bestMask.
RECURSIVE NetVisitLastHitWins(_, _, _, _)
NetVisitLastHitWins(n, lookupNet, order, best) ==
    IF order = <<>>
    THEN best
    ELSE LET mask == Head(order)
             nets == n.Networks[mask]
             f == [i \in 1..Len(nets) |->
                      \/ Contains(nets[i].Net, lookupNet.version, lookupNet.IP)
                      \/ nets[i].Net.IP >= lookupNet.IP]
             index == Search(0, Len(nets), f)
         IN  IF mask > lookupNet.Mask
             THEN NetVisitLastHitWins(n, lookupNet, Tail(order), best)
             ELSE IF \/ index = Len(nets)
                     \/ ~Contains(nets[index + 1].Net, lookupNet.version, lookupNet.IP)
             THEN NetVisitLastHitWins(n, lookupNet, Tail(order), best)
             ELSE NetVisitLastHitWins(n, lookupNet, Tail(order),
                        [Entry |-> IPNetString(nets[index + 1].Net),
                         Mask |-> mask,
                         URLs |-> nets[index + 1].URLs])

\* The loop of NetRegistry.Lookup over the mask-length buckets, visited in
\* the given order.
RECURSIVE NetVisit(_, _, _, _)
NetVisit(n, lookupNet, order, best) ==
    IF order = <<>>
    THEN best
    ELSE LET mask == Head(order)
             nets == n.Networks[mask]
             f == [i \in 1..Len(nets) |->
                      \/ Contains(nets[i].Net, lookupNet.version, lookupNet.IP)
                      \/ nets[i].Net.IP >= lookupNet.IP]
             index == Search(0, Len(nets), f)
         IN  IF mask < best.Mask \/ mask > lookupNet.Mask
             THEN NetVisit(n, lookupNet, Tail(order), best)
             ELSE IF \/ index = Len(nets)
                     \/ ~Contains(nets[index + 1].Net, lookupNet.version, lookupNet.IP)
             THEN NetVisit(n, lookupNet, Tail(order), best)
             ELSE NetVisit(n, lookupNet, Tail(order),
                        [Entry |-> IPNetString(nets[index + 1].Net),
                         Mask |-> mask,
                         URLs |-> nets[index + 1].URLs])

\* NetRegistry.Lookup that takes an address of the other family as no match.
NetRegistryLookupLenient(n, in, order) ==
    LET cidr == IF \A i \in 1..Len(in) : in[i] # Slash
                THEN in \o <<Slash, NumToken(numIPBits(n.ipVersion))>>
                ELSE in
    IN  IF ~ParseCIDROK(cidr)
        THEN Failed("NetRegistry.Lookup")
        ELSE IF ParseCIDR(cidr).version # n.ipVersion
        THEN Result("NetRegistry.Lookup", <<>>, cidr, <<>>)
        ELSE LET best == NetVisit(n, ParseCIDR(cidr), order, NoBest)
             IN  Result("NetRegistry.Lookup", best.URLs, cidr, best.Entry)

NetRegistryLookup(n, in, order) ==
    LET cidr == IF \A i \in 1..Len(in) : in[i] # Slash
                THEN in \o <<Slash, NumToken(numIPBits(n.ipVersion))>>
                ELSE in
    IN  IF ~ParseCIDROK(cidr)
        THEN Failed("NetRegistry.Lookup")
        ELSE IF ParseCIDR(cidr).version # n.ipVersion
        THEN Failed("NetRegistry.Lookup")
        ELSE LET best == NetVisit(n, ParseCIDR(cidr), order, NoBest)
             IN  Result("NetRegistry.Lookup", best.URLs, cidr, best.Entry)

-----------------------------------------------------------------------------
(* ASNRegistry *)

\* The bitSize of strconv.ParseUint(asn, 10, 32) and of uint32, scaled.
ASNBits == 4
MaxUint32 == 2^ASNBits - 1

\* The most ranges a registry of the model holds.
MaxRanges == 2

Digits == <<"0", "1", "2", "3", "4", "5", "6", "7", "8", "9">>

IsDigit(c) == \E d \in 1..Len(Digits) : Digits[d] = c

DigitValue(c) == (CHOOSE d \in 1..Len(Digits) : Digits[d] = c) - 1

\* The value of a string of digits.
RECURSIVE DecimalValue(_)
DecimalValue(s) ==
    IF s = <<>>
    THEN 0
    ELSE 10 * DecimalValue(SubSeq(s, 1, Len(s) - 1)) + DigitValue(s[Len(s)])

\* fmt.Sprintf("%d", n)
RECURSIVE Decimal(_)
Decimal(n) ==
    IF n < 10 THEN <<Digits[n + 1]>> ELSE Decimal(n \div 10) \o <<Digits[(n % 10) + 1]>>

\* string(n) of an integer n: the one-character string of the code point n
\* (never the digits of n).  U+0030..U+0039 are the digit characters.
RuneString(n) ==
    IF n \in 48..57 THEN <<Digits[n - 47]>> ELSE <<"U+" \o ToString(n)>>

\* strings.TrimLeft(s, cutset): every leading character of the cutset goes.
RECURSIVE TrimLeft(_, _)
TrimLeft(s, cutset) ==
    IF s # <<>> /\ Head(s) \in cutset THEN TrimLeft(Tail(s), cutset) ELSE s

\* strconv.ParseUint(s, 10, 32) returns no error.
ParseUintOK(s) ==
    /\ s # <<>>
    /\ \A i \in 1..Len(s) : IsDigit(s[i])
    /\ DecimalValue(s) <= MaxUint32

\* parseASN: the digits handed to strconv.ParseUint.
parseASNDigits(asn) == TrimLeft(ToLower(asn), {"a", "s"})

ASNInputs == StringsOver({"A", "s", "1", "6"})

\* The AS numbers that bound the ranges of the model's registries, and the
\* URL list the documents of the model give each range.
ASNPoints == {1, 6, 7, 11}

ASNURLs(min, max) == IF (min + max) % 2 = 0 THEN <<"u1">> ELSE <<"u2", "u1">>

ASNRange(min, max) == [MinASN |-> min, MaxASN |-> max, URLs |-> ASNURLs(min, max)]

ASNRanges ==
    {r \in {ASNRange(min, max) : min \in ASNPoints, max \in ASNPoints} :
        r.MinASN <= r.MaxASN}

Disjoint(r1, r2) == r1.MaxASN < r2.MinASN \/ r2.MaxASN < r1.MinASN

\* ASNRange.String()
ASNRangeString(a) ==
    IF a.MinASN = a.MaxASN
    THEN <<"A", "S">> \o Decimal(a.MinASN)
    ELSE <<"A", "S">> \o Decimal(a.MinASN) \o <<"-", "A", "S">> \o Decimal(a.MaxASN)

\* sort.Sort(asnRangeSorter(a)) on ranges of distinct MinASN.
RECURSIVE SortASNRanges(_)
SortASNRanges(ranges) ==
    IF ranges = {}
    THEN <<>>
    ELSE LET least == CHOOSE r \in ranges : \A o \in ranges : r.MinASN <= o.MinASN
         IN  <<least>> \o SortASNRanges(ranges \ {least})

\* NewASNRegistry on the ranges a document's keys parse to.
NewASNRegistry(ranges) == [kind |-> ASN, ASNs |-> SortASNRanges(ranges)]

ASNRegistries ==
    {NewASNRegistry(ranges) :
        ranges \in {R \in SUBSET ASNRanges :
                        /\ Cardinality(R) <= MaxRanges
                        /\ \A r1, r2 \in R : r1 # r2 => Disjoint(r1, r2)}}

\* ASNRegistry.Lookup without the test against MinASN.
ASNRegistryLookupNoMinTest(a, in) ==
    IF ~ParseUintOK(parseASNDigits(in))
    THEN Failed("ASNRegistry.Lookup")
    ELSE LET asn == DecimalValue(parseASNDigits(in))
             index == Search(0, Len(a.ASNs),
                             [i \in 1..Len(a.ASNs) |-> asn <= a.ASNs[i].MaxASN])
         IN  IF index # Len(a.ASNs)
             THEN Result("ASNRegistry.Lookup", a.ASNs[index + 1].URLs,
                         RuneString(asn), ASNRangeString(a.ASNs[index + 1]))
             ELSE Result("ASNRegistry.Lookup", <<>>, RuneString(asn), <<>>)

ASNRegistryLookup(a, in) ==
    IF ~ParseUintOK(parseASNDigits(in))
    THEN Failed("ASNRegistry.Lookup")
    ELSE LET asn == DecimalValue(parseASNDigits(in))
             index == Search(0, Len(a.ASNs),
                             [i \in 1..Len(a.ASNs) |-> asn <= a.ASNs[i].MaxASN])
         IN  IF /\ index # Len(a.ASNs)
                /\ asn >= a.ASNs[index + 1].MinASN
                /\ asn <= a.ASNs[index + 1].MaxASN
             THEN Result("ASNRegistry.Lookup", a.ASNs[index + 1].URLs,
                         RuneString(asn), ASNRangeString(a.ASNs[index + 1]))
             ELSE Result("ASNRegistry.Lookup", <<>>, RuneString(asn), <<>>)

-----------------------------------------------------------------------------
(* ServiceProviderRegistry *)

\* The service tags a Service Provider document can hold.
ServiceTags == {<<"V">>, <<"x">>}

ServiceProviderRegistries ==
    {[kind |-> ServiceProvider, services |-> m] :
        m \in UNION {[K -> URLLists] : K \in SUBSET ServiceTags}}

ServiceProviderInputs == StringsOver({"~", "-", "V", "x"})

\* ServiceProviderRegistry.Lookup that reports a handle without a tag as an
\* error.
ServiceProviderRegistryLookupStrict(s, in) ==
    LET offset == IndexByte(in, "~")
        service == SliceFrom(in, offset + 1)
    IN  IF offset = -1 \/ offset = Len(in) - 1
        THEN Failed("ServiceProviderRegistry.Lookup")
        ELSE IF service \in DOMAIN s.services
        THEN Result("ServiceProviderRegistry.Lookup", s.services[service], in, service)
        ELSE Result("ServiceProviderRegistry.Lookup", <<>>, in, <<>>)

ServiceProviderRegistryLookup(s, in) ==
    LET offset == IndexByte(in, "~")
        service == SliceFrom(in, offset + 1)
    IN  IF offset = -1 \/ offset = Len(in) - 1
        THEN Result("ServiceProviderRegistry.Lookup", <<>>, in, <<>>)
        ELSE IF service \in DOMAIN s.services
        THEN Result("ServiceProviderRegistry.Lookup", s.services[service], in, service)
        ELSE Result("ServiceProviderRegistry.Lookup", <<>>, in, <<>>)

-----------------------------------------------------------------------------
(* parse *)

\* The most service entries a document of the model holds.
MaxServices == 2

\* A JSON document: whether it is syntactically valid JSON, and what its
\* top-level "services" member is: absent, null, a string, or an array of
\* service entries.  A service entry is an array of arrays of strings.
KeyLists == {<<>>, <<"k1">>, <<"k2">>, <<"k1", "k2">>}
RawURLLists == {<<>>, <<"%bad">>, <<"u1">>, <<"u2">>, <<"u2", "%bad", "u1">>}

ServiceArrays ==
    {<<keys, urls>> : keys \in KeyLists, urls \in RawURLLists}
        \cup {<<<<"k1">>>>, <<<<"k1">>, <<"u1">>, <<"u2">>>>}

JSONDocument(valid, kind, items) ==
    [valid |-> valid, services |-> [kind |-> kind, items |-> items]]

JSONDocuments ==
    {JSONDocument(TRUE, "array", items) :
        items \in UNION {[1..n -> ServiceArrays] : n \in 0..MaxServices}}
    \cup {JSONDocument(TRUE, kind, <<>>) : kind \in {"absent", "null", "string"}}
    \cup {JSONDocument(FALSE, "absent", <<>>)}

\* json.Unmarshal(jsonDocument, &doc) returns no error: the document is
\* valid JSON and "services", when present and not null, is an array.
UnmarshalOK(jsonDocument) ==
    /\ jsonDocument.valid
    /\ jsonDocument.services.kind \in {"absent", "null", "array"}

\* doc.Services after json.Unmarshal: nil unless "services" is an array.
UnmarshalServices(jsonDocument) ==
    IF jsonDocument.services.kind = "array" THEN jsonDocument.services.items ELSE <<>>

\* url.Parse(rawURL) returns no error.
URLParses(rawURL) == rawURL # "%bad"

\* The inner loop of parse: the URLs that parse, in order.
RECURSIVE parseURLs(_)
parseURLs(rawURLs) ==
    IF rawURLs = <<>>
    THEN <<>>
    ELSE IF URLParses(Head(rawURLs))
    THEN <<Head(rawURLs)>> \o parseURLs(Tail(rawURLs))
    ELSE parseURLs(Tail(rawURLs))

ParseFailed == [op |-> "parse", err |-> TRUE, Entries |-> <<>>]

\* The outer loop of parse with the test len(urls) > 0 left out.
RECURSIVE parseServicesKeepEmpty(_, _)
parseServicesKeepEmpty(services, b) ==
    IF services = <<>>
    THEN [op |-> "parse", err |-> FALSE, Entries |-> b]
    ELSE LET s == Head(services) IN
         IF Len(s) # 2
         THEN ParseFailed
         ELSE LET urls == parseURLs(s[2])
                  entries == {s[1][i] : i \in 1..Len(s[1])}
              IN  parseServicesKeepEmpty(Tail(services),
                        [k \in DOMAIN b \cup entries |->
                            IF k \in entries THEN urls ELSE b[k]])

\* The outer loop of parse when a service entry that does not have two
\* elements is skipped.
RECURSIVE parseServicesSkipMalformed(_, _)
parseServicesSkipMalformed(services, b) ==
    IF services = <<>>
    THEN [op |-> "parse", err |-> FALSE, Entries |-> b]
    ELSE LET s == Head(services) IN
         IF Len(s) # 2
         THEN parseServicesSkipMalformed(Tail(services), b)
         ELSE LET urls == parseURLs(s[2])
                  entries == {s[1][i] : i \in 1..Len(s[1])}
              IN  IF Len(urls) > 0
                  THEN parseServicesSkipMalformed(Tail(services),
                            [k \in DOMAIN b \cup entries |->
                                IF k \in entries THEN urls ELSE b[k]])
                  ELSE parseServicesSkipMalformed(Tail(services), b)

\* The outer loop of parse over doc.Services.
RECURSIVE parseServices(_, _)
parseServices(services, b) ==
    IF services = <<>>
    THEN [op |-> "parse", err |-> FALSE, Entries |-> b]
    ELSE LET s == Head(services) IN
         IF Len(s) # 2
         THEN ParseFailed
         ELSE LET urls == parseURLs(s[2])
                  entries == {s[1][i] : i \in 1..Len(s[1])}
              IN  IF Len(urls) > 0
                  THEN parseServices(Tail(services),
                            [k \in DOMAIN b \cup entries |->
                                IF k \in entries THEN urls ELSE b[k]])
                  ELSE parseServices(Tail(services), b)

parse(jsonDocument) ==
    IF ~UnmarshalOK(jsonDocument)
    THEN ParseFailed
    ELSE parseServices(UnmarshalServices(jsonDocument), <<>>)

\* The start of NewASNRegistry, NewDNSRegistry, NewNetRegistry and
\* NewServiceProviderRegistry: the document is parsed, and a parse error
\* gives a nil registry and an error.
NewTypedRegistry(registry, jsonDocument) ==
    IF parse(jsonDocument).err
    THEN [op |-> "new", type |-> registry, nil |-> TRUE, err |-> TRUE]
    ELSE [op |-> "new", type |-> registry, nil |-> FALSE, err |-> FALSE]

-----------------------------------------------------------------------------
(* The registries and the parser on their own: a registry (or a document)
   and an input are chosen, then the Lookup (or parse) is applied once. *)

LookupDNS ==
    /\ result = NoResult
    /\ receiver.kind = DNS
    /\ result' = DNSRegistryLookup(receiver, input)
    /\ UNCHANGED <<receiver, input>>
    /\ UNCHANGED <<now, cacheVars, Timeout, clientVars, calls, saved, last>>

LookupNet ==
    /\ result = NoResult
    /\ receiver.kind \in {IPv4, IPv6}
    /\ \E order \in Orders(DOMAIN receiver.Networks) :
            result' = NetRegistryLookup(receiver, input, order)
    /\ UNCHANGED <<receiver, input>>
    /\ UNCHANGED <<now, cacheVars, Timeout, clientVars, calls, saved, last>>

LookupASN ==
    /\ result = NoResult
    /\ receiver.kind = ASN
    /\ result' = ASNRegistryLookup(receiver, input)
    /\ UNCHANGED <<receiver, input>>
    /\ UNCHANGED <<now, cacheVars, Timeout, clientVars, calls, saved, last>>

LookupServiceProvider ==
    /\ result = NoResult
    /\ receiver.kind = ServiceProvider
    /\ result' = ServiceProviderRegistryLookup(receiver, input)
    /\ UNCHANGED <<receiver, input>>
    /\ UNCHANGED <<now, cacheVars, Timeout, clientVars, calls, saved, last>>

Parse ==
    /\ result = NoResult
    /\ receiver.kind = "json"
    /\ result' = parse(receiver.json)
    /\ UNCHANGED <<receiver, input>>
    /\ UNCHANGED <<now, cacheVars, Timeout, clientVars, calls, saved, last>>

New ==
    /\ result = NoResult
    /\ receiver.kind = "json"
    /\ \E registry \in RegistryTypes :
            result' = NewTypedRegistry(registry, receiver.json)
    /\ UNCHANGED <<receiver, input>>
    /\ UNCHANGED <<now, cacheVars, Timeout, clientVars, calls, saved, last>>

InitRegistry ==
    /\ InitCaches({})
    /\ InitClients(<<>>)
    /\ result = NoResult
    /\ \/ \E d \in DNSRegistries, in \in DNSInputs :
                receiver = d /\ input = in
       \/ \E n \in NetRegistries, in \in NetInputs :
                receiver = n /\ input = in
       \/ \E a \in ASNRegistries, in \in ASNInputs :
                receiver = a /\ input = in
       \/ \E s \in ServiceProviderRegistries, in \in ServiceProviderInputs :
                receiver = s /\ input = in
       \/ \E jsonDocument \in JSONDocuments :
                receiver = [kind |-> "json", json |-> jsonDocument] /\ input = <<>>

NextRegistry ==
    \/ LookupDNS
    \/ LookupNet
    \/ LookupASN
    \/ LookupServiceProvider
    \/ Parse
    \/ New

SpecRegistry == InitRegistry /\ [][NextRegistry]_vars

-----------------------------------------------------------------------------
(* Properties of the registries *)

\* The names DNSRegistry.Lookup is to try: the name, every name left after
\* stripping leading labels, and the root.
LabelSuffixes(name) ==
    {name, <<>>} \cup {SliceFrom(name, i) : i \in {j \in 1..Len(name) : name[j] = "."}}

Longest(names) == CHOOSE n \in names : \A m \in names : Len(m) <= Len(n)

\* C11: DNSRegistry.Lookup never fails; with the input stripped of one
\* trailing "." and lowercased, the entry is the longest registered name
\* among the name, its label suffixes and the root, the urls are that key's
\* list, and when none is registered the entry and the urls are empty.
C11_DNSLongestSuffixWins ==
    result.op = "DNSRegistry.Lookup" =>
        LET name == ToLower(TrimSuffix(input, <<".">>))
            registered == LabelSuffixes(name) \cap DOMAIN receiver.DNS
        IN  /\ ~result.err
            /\ IF registered = {}
               THEN result.Entry = <<>> /\ result.URLs = <<>>
               ELSE /\ result.Entry = Longest(registered)
                    /\ result.URLs = receiver.DNS[result.Entry]

\* A second level domain won over its registered TLD and the root, for an
\* input in upper case with a trailing dot.
C11_Witness ==
    /\ result.op = "DNSRegistry.Lookup"
    /\ DOMAIN receiver.DNS = DNSKeys
    /\ input = <<"B", ".", "a", ".">>
    /\ result.Entry = <<"b", ".", "a">>

\* The entries of a NetRegistry.
NetEntries(n) ==
    UNION {{n.Networks[mask][i] : i \in 1..Len(n.Networks[mask])} :
                mask \in DOMAIN n.Networks}

\* The network a well-formed query of the registry's family asks about: a
\* bare address is a network of one address.
IsNetQuery(n, in) ==
    /\ Len(in) \in {1, 3}
    /\ in[1].tok = "ip"
    /\ in[1].version = n.ipVersion
    /\ Len(in) = 3 => /\ in[2] = Slash
                      /\ in[3].tok = "num"
                      /\ in[3].n <= numIPBits(n.ipVersion)

QueryMask(n, in) == IF Len(in) = 1 THEN numIPBits(n.ipVersion) ELSE in[3].n

QueryStart(n, in) == MaskIP(n.ipVersion, in[1].n, QueryMask(n, in))

\* C12: for a well-formed query of the registry's family NetRegistry.Lookup
\* returns, in whatever order the buckets are visited, the entry of longest
\* mask among the entries no longer than the query's mask that contain the
\* query's start address, with its CIDR and its urls; with no such entry,
\* an empty entry and empty urls.
C12_NetLongestPrefixWins ==
    (result.op = "NetRegistry.Lookup" /\ IsNetQuery(receiver, input)) =>
        LET matching ==
                {e \in NetEntries(receiver) :
                    /\ e.Net.Mask <= QueryMask(receiver, input)
                    /\ Contains(e.Net, receiver.ipVersion, QueryStart(receiver, input))}
        IN  /\ ~result.err
            /\ IF matching = {}
               THEN result.Entry = <<>> /\ result.URLs = <<>>
               ELSE \E e \in matching :
                        /\ \A o \in matching : o.Net.Mask <= e.Net.Mask
                        /\ result.Entry = IPNetString(e.Net)
                        /\ result.URLs = e.URLs

\* A bare address found in the longer of two nested networks.
C12_Witness ==
    /\ result.op = "NetRegistry.Lookup"
    /\ IsNetQuery(receiver, input)
    /\ Len(input) = 1
    /\ Cardinality(NetEntries(receiver)) = 2
    /\ \A e \in NetEntries(receiver) :
            Contains(e.Net, receiver.ipVersion, QueryStart(receiver, input))
    /\ \E e \in NetEntries(receiver) : e.Net.Mask > 0 /\ result.Entry = IPNetString(e.Net)

\* The input is an IP address or a CIDR network, of either family.
ParsesAsIPOrCIDR(in) ==
    /\ Len(in) \in {1, 3}
    /\ in[1].tok = "ip"
    /\ Len(in) = 3 => /\ in[2] = Slash
                      /\ in[3].tok = "num"
                      /\ in[3].n <= numIPBits(in[1].version)

\* C18: NetRegistry.Lookup returns an error, not an empty result, for every
\* input that is neither an IP address nor a CIDR network and for every
\* address or network of the other family than the registry's.
C18_NetRejectsMalformedAndOtherFamily ==
    (/\ result.op = "NetRegistry.Lookup"
     /\ \/ ~ParsesAsIPOrCIDR(input)
        \/ input[1].version # receiver.ipVersion) => result.err

\* A bare IPv6 address was looked up in an IPv4 registry, where it parses
\* as a network once "/32" is appended.
C18_Witness ==
    /\ result.op = "NetRegistry.Lookup"
    /\ result.err
    /\ receiver.ipVersion = 4
    /\ Len(input) = 1
    /\ input[1].tok = "ip"
    /\ input[1].version = 6

\* A valid AS number: decimal digits of a value that fits 32 bits (scaled),
\* optionally after one "AS" in any letter case.
IsASNumber(s) ==
    /\ s # <<>>
    /\ \A i \in 1..Len(s) : IsDigit(s[i])
    /\ DecimalValue(s) <= MaxUint32

HasASPrefix(in) == Len(in) >= 2 /\ ToLower(SubSeq(in, 1, 2)) = <<"a", "s">>

IsASNQuery(in) ==
    \/ IsASNumber(in)
    \/ HasASPrefix(in) /\ IsASNumber(SubSeq(in, 3, Len(in)))

ASNOfQuery(in) ==
    IF HasASPrefix(in) THEN DecimalValue(SubSeq(in, 3, Len(in))) ELSE DecimalValue(in)

\* C13: in a registry of pairwise disjoint ranges, ASNRegistry.Lookup of a
\* valid AS number n returns the range with MinASN <= n <= MaxASN when there
\* is one, as "AS<min>-AS<max>" or "AS<n>" with the range's urls; in a gap or
\* outside every range it returns an empty entry, empty urls and no error.
C13_ASNRangeOfNumber ==
    (/\ result.op = "ASNRegistry.Lookup"
     /\ IsASNQuery(input)
     /\ \A i, j \in 1..Len(receiver.ASNs) :
            i # j => Disjoint(receiver.ASNs[i], receiver.ASNs[j])) =>
        LET n == ASNOfQuery(input)
            hit == {i \in 1..Len(receiver.ASNs) :
                        receiver.ASNs[i].MinASN <= n /\ n <= receiver.ASNs[i].MaxASN}
        IN  /\ ~result.err
            /\ IF hit = {}
               THEN result.Entry = <<>> /\ result.URLs = <<>>
               ELSE \E i \in hit :
                        LET r == receiver.ASNs[i]
                        IN  /\ result.URLs = r.URLs
                            /\ result.Entry =
                                 IF r.MinASN = r.MaxASN
                                 THEN <<"A", "S">> \o Decimal(n)
                                 ELSE <<"A", "S">> \o Decimal(r.MinASN)
                                        \o <<"-", "A", "S">> \o Decimal(r.MaxASN)

\* AS6 was looked up in a registry of two ranges and found in the second;
\* AS6 was looked up and fell into the gap between two ranges.
C13_Witness ==
    /\ result.op = "ASNRegistry.Lookup"
    /\ input = <<"A", "s", "6">>
    /\ Len(receiver.ASNs) = 2
    /\ result.Entry = <<"A", "S", "6", "-", "A", "S", "1", "1">>

C13_WitnessGap ==
    /\ result.op = "ASNRegistry.Lookup"
    /\ input = <<"6">>
    /\ Len(receiver.ASNs) = 2
    /\ receiver.ASNs[1].MaxASN < 6
    /\ receiver.ASNs[2].MinASN > 6
    /\ ~result.err
    /\ result.Entry = <<>>

\* C19: ASNRegistry.Lookup accepts exactly the decimal numbers that fit 32
\* bits (scaled), optionally preceded by one "AS" in any letter case, and
\* returns an error for every other input.
C19_ASNAcceptsExactlyASNumbers ==
    result.op = "ASNRegistry.Lookup" => (~result.err <=> IsASNQuery(input))

\* C20: the Query of a successful result is the canonicalised input: for a
\* DNS lookup the name lowercased and without the trailing ".", for an ASN
\* lookup the AS number in decimal digits without the "AS" prefix.
C20_QueryIsCanonicalisedInput ==
    /\ (result.op = "DNSRegistry.Lookup" /\ ~result.err) =>
            result.Query = ToLower(TrimSuffix(input, <<".">>))
    /\ (result.op = "ASNRegistry.Lookup" /\ ~result.err /\ IsASNQuery(input)) =>
            result.Query = Decimal(ASNOfQuery(input))

\* The separators of an entity handle, and the tag of a handle: what
\* follows its last separator.
Separators == {"~", "-"}

HasSeparator(in) == \E i \in 1..Len(in) : in[i] \in Separators

TagOf(in) ==
    LET at == {i \in 1..Len(in) : in[i] \in Separators}
    IN  SubSeq(in, (CHOOSE i \in at : \A j \in at : j <= i) + 1, Len(in))

\* C14: ServiceProviderRegistry.Lookup never returns an error; an input
\* with no separator, with nothing after the separator, or with a tag that
\* is not registered gets an empty entry and empty urls.
C14_ServiceProviderNeverFails ==
    result.op = "ServiceProviderRegistry.Lookup" =>
        /\ ~result.err
        /\ (\/ ~HasSeparator(input)
            \/ TagOf(input) = <<>>
            \/ TagOf(input) \notin DOMAIN receiver.services) =>
                result.Entry = <<>> /\ result.URLs = <<>>

\* "x~V~" was looked up in a registry that holds the tag V.
C14_Witness ==
    /\ result.op = "ServiceProviderRegistry.Lookup"
    /\ input = <<"x", "~", "V", "~">>
    /\ <<"V">> \in DOMAIN receiver.services
    /\ ~result.err
    /\ result.Entry = <<>>

\* C15: the tag is what follows the last separator, "~" or the legacy "-":
\* every input that ends in a separator followed by a registered tag gets
\* that tag as entry and the tag's urls.
C15_ServiceProviderTagAfterLastSeparator ==
    (/\ result.op = "ServiceProviderRegistry.Lookup"
     /\ HasSeparator(input)
     /\ TagOf(input) \in DOMAIN receiver.services) =>
        /\ ~result.err
        /\ result.Entry = TagOf(input)
        /\ result.URLs = receiver.services[TagOf(input)]

\* The service entries of the parsed document, its keys, and the parsable
\* URLs of a service entry.
ServicesOf(jsonDocument) == jsonDocument.services.items

KeysOf(s) == {s[1][i] : i \in 1..Len(s[1])}

ParsableURLs(s) == SelectSeq(s[2], URLParses)

\* C16: in an accepted document every key of a service entry with at least
\* one parsable URL maps to exactly the parsable URLs, in order, of the last
\* such entry that names it; a key named only by entries without a
\* parsable URL is not in Entries; no key maps to an empty list; and an
\* unparsable URL does not fail the parse.
C16_EntriesAreParsableURLs ==
    result.op = "parse" =>
        LET services == ServicesOf(receiver.json)
            wellFormed == /\ receiver.json.valid
                          /\ receiver.json.services.kind = "array"
                          /\ \A i \in 1..Len(services) : Len(services[i]) = 2
        IN  /\ wellFormed => ~result.err
            /\ (~result.err /\ receiver.json.services.kind = "array") =>
                /\ \A k \in {"k1", "k2"} :
                    LET naming == {i \in 1..Len(services) :
                                      /\ k \in KeysOf(services[i])
                                      /\ ParsableURLs(services[i]) # <<>>}
                    IN  IF naming = {}
                        THEN k \notin DOMAIN result.Entries
                        ELSE /\ k \in DOMAIN result.Entries
                             /\ result.Entries[k] =
                                    ParsableURLs(services[
                                        CHOOSE i \in naming : \A j \in naming : j <= i])
                /\ \A k \in DOMAIN result.Entries : result.Entries[k] # <<>>

\* A document was accepted in which k1 is named by an entry with an
\* unparsable URL among two parsable ones and then by an entry whose only
\* URL is unparsable.
C16_Witness ==
    /\ result.op = "parse"
    /\ ~result.err
    /\ ServicesOf(receiver.json) =
            <<<< <<"k1", "k2">>, <<"u2", "%bad", "u1">> >>, << <<"k1">>, <<"%bad">> >>>>
    /\ result.Entries["k1"] = <<"u2", "u1">>

\* C17: parse fails when the "services" member of an otherwise valid
\* document is absent or is not an array; a present, empty services array
\* gives a RegistryFile with zero entries.
C17_ServicesRequired ==
    (result.op = "parse" /\ receiver.json.valid) =>
        /\ receiver.json.services.kind # "array" => result.err
        /\ (receiver.json.services.kind = "array" /\ ServicesOf(receiver.json) = <<>>) =>
                ~result.err /\ DOMAIN result.Entries = {}

-----------------------------------------------------------------------------
(* Properties of the caches and the client, continued *)

\* C22: Load of a file that has no cache entry returns an error and no
\* bytes, on a MemoryCache and on a DiskCache alike, and creates no entry:
\* State of the file is Absent afterwards.
C22_LoadOfMissingFileFails ==
    [][\A k \in Constructed, f \in CacheFiles :
        (/\ last'.op = "Load"
         /\ last'.who = k
         /\ last'.file = f
         /\ ~HasEntry(k, f))
        => /\ last'.err # ""
           /\ last'.ret = ""
           /\ ~HasEntry(k, f)'
           /\ State(k, f)' = Absent]_vars

\* The file on disk is the one instance a wrote (or has loaded since).
SavedBy(a, f) ==
    /\ dir[f].present
    /\ IsLatestLoaded(dir[f].modTime, lastLoadedModTime[a][f])

\* The timeout of instance k has elapsed for the entry of file f.
Elapsed(k, f) == Age(k, f) >= Timeout[k]

\* C23 as stated: with DiskCache instances A and B on one directory, once A
\* has saved f and the timeout, set to zero on A, has elapsed, State of f is
\* Expired on A and on B.
C23_ExpiredOnBothInstances ==
    \A a \in Constructed \cap DiskCaches, f \in CacheFiles :
        (SavedBy(a, f) /\ Timeout[a] = 0 /\ Elapsed(a, f)) =>
            \A b \in Constructed \cap DiskCaches : State(b, f) = Expired

\* C23 amended: State of f is Expired on A; on every instance B it is
\* Expired exactly when B's own timeout has elapsed, whatever A's timeout.
C23_ExpiredByOwnTimeout ==
    \A a \in Constructed \cap DiskCaches, f \in CacheFiles :
        (SavedBy(a, f) /\ Timeout[a] = 0 /\ Elapsed(a, f)) =>
            /\ State(a, f) = Expired
            /\ \A b \in Constructed \cap DiskCaches :
                    State(b, f) = Expired <=> Elapsed(b, f)

\* A saved the file and has timeout zero; B, with its default timeout, does
\* not report Expired.
C23_Witness ==
    \E a, b \in Constructed \cap DiskCaches, f \in CacheFiles :
        /\ SavedBy(a, f)
        /\ Timeout[a] = 0
        /\ State(a, f) = Expired
        /\ Timeout[b] = DefaultCacheTimeout
        /\ State(b, f) = ShouldReload

\* C27: under every interleaving of Save, Load and State by DiskCache
\* instances on one directory, an instance that reports Good for a file
\* holds, from its last Save or Load, the bytes that are on disk now.
C27_GoodMeansCurrentBytesHeld ==
    \A d \in Constructed \cap DiskCaches, f \in CacheFiles :
        State(d, f) = Good => held[d][f] = dir[f].data

----------------------------------------------------------------------------
(* Processes saving and loading concurrently in one cache directory.       *)
(* DiskCache.Save writes with ioutil.WriteFile, which opens the file with  *)
(* O_TRUNC, writes the bytes and closes it; nothing locks the file, so the *)
(* steps of one process interleave with the calls of the others.           *)

\* Save, up to the open inside ioutil.WriteFile: the file exists and is empty.
OpenTrunc(d, filename, data) ==
    /\ CountCall
    /\ ~writing[d].busy
    /\ dir' = [dir EXCEPT ![filename] =
                    [present |-> TRUE, data |-> "", modTime |-> now]]
    /\ writing' = [writing EXCEPT ![d] =
                    [busy |-> TRUE, file |-> filename, data |-> data]]
    /\ last' = NoCall
    /\ UNCHANGED <<now, lastLoadedModTime, cache, mtime, held, Timeout,
                   clientVars, saved>>
    /\ UNCHANGED lookupVars

\* Part of the bytes has reached the file.
WriteSome(d) ==
    /\ writing[d].busy
    /\ dir' = [dir EXCEPT ![writing[d].file] =
                    [present |-> TRUE, data |-> Truncated, modTime |-> now]]
    /\ last' = NoCall
    /\ UNCHANGED <<now, lastLoadedModTime, cache, mtime, held, writing, Timeout,
                   clientVars, calls, saved>>
    /\ UNCHANGED lookupVars

\* The rest of Save: the write completes, the file is stat'ed and its
\* modification time recorded.
FinishSave(d) ==
    /\ writing[d].busy
    /\ LET r == DiskCacheSave(Store, d, writing[d].file, writing[d].data, now, "ok") IN
        /\ dir' = r.S.dir
        /\ lastLoadedModTime' = r.S.lastLoadedModTime
        /\ held' = r.S.held
    /\ writing' = [writing EXCEPT ![d] = NoWrite]
    /\ saved' = saved \cup {<<Storage(d), writing[d].file>>}
    /\ last' = Call("Save", d, writing[d].file, "", "", "", "", writing[d].data, FALSE)
    /\ UNCHANGED <<now, cache, mtime, Timeout, clientVars, calls>>
    /\ UNCHANGED lookupVars

\* Load by a process that is not in the middle of a Save of its own.
LoadShared(d, filename, io) ==
    /\ ~writing[d].busy
    /\ Load(d, filename, io)

InitShared ==
    /\ InitCaches(DiskCaches)
    /\ InitClients(<<>>)
    /\ InitNoLookup

NextShared ==
    \/ Tick
    \/ \E d \in Constructed, f \in CacheFiles, data \in Documents :
            OpenTrunc(d, f, data)
    \/ \E d \in Constructed : WriteSome(d)
    \/ \E d \in Constructed : FinishSave(d)
    \/ \E d \in Constructed, f \in CacheFiles, io \in LoadIO : LoadShared(d, f, io)

SpecShared == InitShared /\ [][NextShared]_vars

\* C26: with several processes saving and loading one file of a shared
\* directory concurrently, every Load that succeeds returns the complete
\* bytes of a Save, never an empty or partially written file.
C26_LoadReturnsCompleteSave ==
    [][\A d \in Constructed, f \in CacheFiles :
        (/\ last'.op = "Load"
         /\ last'.who = d
         /\ last'.file = f
         /\ last'.err = "")
        => last'.ret \in Documents]_vars

----------------------------------------------------------------------------
(* Properties of the client, continued *)

\* The bytes instance k holds for file f.
EntryData(k, f) == IF k \in DiskCaches THEN dir[f].data ELSE cache[k][f].data

\* The reload a Lookup step of client c for type r attempts fails: the cache
\* reports ShouldReload and either the Load fails or the bytes do not parse.
ReloadFails(c, r) ==
    /\ State(Cache[c], Filename(r)) = ShouldReload
    /\ \/ last'.load = "err"
       \/ ~ParsesAsRegistryFile(EntryData(Cache[c], Filename(r)))

\* C24: when the cache reports ShouldReload and the reload fails (the Load
\* fails or the cached bytes do not parse), Lookup downloads in the same
\* call; every error it returns is then the download's or the query's, and
\* when the download succeeds the cache entry holds the downloaded bytes, the
\* registry built from them is installed and the answer is that registry's.
C24_FailedReloadFallsThroughToDownload ==
    [][\A c \in ConstructedClients, r \in ClientTypes :
        (LookupStep(c, r) /\ ReloadFails(c, r)) =>
            /\ last'.dl
            /\ last'.err \in {"", "query_err", "download_err", "save_err"}
            /\ last'.err \in {"", "query_err"} =>
                /\ ~registries'[c][r].nil
                /\ HasEntry(Cache[c], Filename(r))'
                /\ EntryData(Cache[c], Filename(r))' = registries'[c][r].json
                /\ EntryTime(Cache[c], Filename(r))' = now
                /\ last'.ret = RegistryLookup(registries'[c][r], last'.query).entry
                /\ (last'.err = "query_err") =
                        RegistryLookup(registries'[c][r], last'.query).err]_vars

\* A Lookup found ShouldReload, its Load failed, it downloaded and answered
\* from the downloaded registry, which the cache now holds.
C24_Witness ==
    \E c \in ConstructedClients, r \in ClientTypes :
        /\ last.op = "Lookup"
        /\ last.who = c
        /\ last.file = Filename(r)
        /\ last.state = ShouldReload
        /\ last.load = "err"
        /\ last.dl
        /\ last.err = ""
        /\ last.ret = "k2"
        /\ EntryData(Cache[c], Filename(r)) = registries[c][r].json

\* C25: a download installs the registry only once Cache.Save of the
\* downloaded bytes has succeeded.  When a Download or a Lookup that
\* downloaded returns without a download or save error, the cache entry of
\* the file holds exactly the bytes the installed registry was parsed from;
\* when Cache.Save fails, the call returns that error, Lookup gives no
\* answer, and the client's registries are the ones it had.
C25_InstallOnlyAfterSave ==
    [][\A c \in ConstructedClients, r \in ClientTypes :
        (FetchStep(c, r) /\ last'.dl) =>
            /\ last'.err \in {"", "query_err"} =>
                /\ ~registries'[c][r].nil
                /\ HasEntry(Cache[c], Filename(r))'
                /\ EntryData(Cache[c], Filename(r))' = registries'[c][r].json
            /\ last'.err = "save_err" =>
                /\ registries' = registries
                /\ last'.op = "Lookup" => last'.ret = "nil"
            /\ registries'[c][r] # registries[c][r] =>
                /\ last'.err \in {"", "query_err"}
                /\ <<Storage(Cache[c]), Filename(r)>> \in saved']_vars

\* Download has installed a registry, and the cache file of the client's
\* DiskCache holds the bytes it was parsed from.
C25_Witness ==
    \E c \in ConstructedClients, r \in ClientTypes :
        /\ last.op = "Download"
        /\ last.who = c
        /\ last.file = Filename(r)
        /\ last.err = ""
        /\ Cache[c] \in DiskCaches
        /\ registries[c][r].json = "v2"
        /\ dir[Filename(r)].data = "v2"
        /\ held[Cache[c]][Filename(r)] = "v2"

\* C30: Lookup never calls Lookup on a nil registry.  Whatever the cache
\* state and the outcome of the load and of the download, a Lookup either
\* returns the error of its download (with no answer) or delegates to an
\* installed registry of the question's type.
C30_LookupDelegatesToInstalledRegistry ==
    [][\A c \in ConstructedClients, r \in ClientTypes :
        LookupStep(c, r) =>
            /\ last'.err # "panic"
            /\ \/ /\ last'.err \in {"download_err", "save_err"}
                  /\ last'.dl
                  /\ last'.ret = "nil"
               \/ /\ last'.err \in {"", "query_err"}
                  /\ ~registries'[c][r].nil
                  /\ registries'[c][r].type = r]_vars

\* A Lookup that found no file in the cache and held no registry has
\* downloaded one and answered from it.
C30_Witness ==
    \E c \in ConstructedClients, r \in ClientTypes :
        /\ last.op = "Lookup"
        /\ last.who = c
        /\ last.file = Filename(r)
        /\ last.state = Absent
        /\ last.dl
        /\ last.err = ""
        /\ ~registries[c][r].nil
        /\ registries[c][r].type = r

-----------------------------------------------------------------------------
(* Properties of the registries, continued *)

\* The document is valid JSON whose "services" is an array with an entry
\* that does not have exactly two elements.
HasMalformedService(jsonDocument) ==
    /\ jsonDocument.valid
    /\ jsonDocument.services.kind = "array"
    /\ \E i \in 1..Len(ServicesOf(jsonDocument)) :
            Len(ServicesOf(jsonDocument)[i]) # 2

\* C28: when any service entry of the document does not have exactly two
\* elements, parse returns an error and no RegistryFile, whatever the
\* entries before it, and every typed registry constructor returns an error
\* and no registry.
C28_MalformedServiceFailsParse ==
    (receiver.kind = "json" /\ HasMalformedService(receiver.json)) =>
        /\ result.op = "parse" => (result.err /\ result.Entries = <<>>)
        /\ result.op = "new" => (result.err /\ result.nil)

\* parse has failed on a document whose first service entry is well formed,
\* with a parsable URL, and whose second has one element.
C28_Witness ==
    /\ result.op = "parse"
    /\ result.err
    /\ ServicesOf(receiver.json) = << << <<"k1">>, <<"u1">> >>, << <<"k1">> >> >>

-----------------------------------------------------------------------------
(* Construction of the sorted registries from the Entries of a document.   *)
(* The constructors range over the Entries map, whose iteration order is   *)
(* not fixed, and sort with sort.Sort, which is not stable: entries that   *)
(* compare equal end up in any order.                                      *)

\* The keys "lo-hi" an ASN document can hold, as written.
ASNKeys == {[lo |-> a, hi |-> b] : a \in ASNPoints, b \in ASNPoints}

\* The URL list the documents of the model give a key.
ASNKeyURLs(key) ==
    IF key.lo > key.hi THEN <<"u2">> ELSE ASNURLs(key.lo, key.hi)

\* parseASNRange: the two numbers, swapped when the first is the larger.
parseASNRange(key) ==
    [MinASN |-> IF key.lo > key.hi THEN key.hi ELSE key.lo,
     MaxASN |-> IF key.lo > key.hi THEN key.lo ELSE key.hi,
     URLs |-> ASNKeyURLs(key)]

\* The results of sort.Sort(asnRangeSorter(a)): the ranges in any order in
\* which MinASN does not decrease.
ASNSorted(keys) ==
    {a \in Orders({parseASNRange(k) : k \in keys}) :
        \A i \in 1..(Len(a) - 1) : ~(a[i + 1].MinASN < a[i].MinASN)}

\* The registries NewASNRegistry can return for a document with these keys.
ASNBuilds(keys) == {[kind |-> ASN, ASNs |-> a] : a \in ASNSorted(keys)}

\* The CIDR keys a document of an address family can hold, as written: the
\* address need not be the first of its network.
NetKeys(version) ==
    {<<IPToken(version, a), Slash, NumToken(m)>> :
        a \in 0..(2^numIPBits(version) - 1), m \in 0..numIPBits(version)}

NetKeyURLs(key) == IF key[1].n % 2 = 0 THEN <<"u1">> ELSE <<"u2", "u1">>

\* The entry NewNetRegistry appends for a key: net.ParseCIDR masks the
\* address.
NetKeyEntry(key) == [Net |-> ParseCIDR(key), URLs |-> NetKeyURLs(key)]

\* The entries of one mask length, in the order of the sequence.
Bucket(entries, size) ==
    LET HasSize(e) == e.Net.Mask = size IN SelectSeq(entries, HasSize)

\* The results of the loop over registry.Entries followed by
\* sort.Sort(netEntrySorter(nets)) on each bucket: in every bucket the
\* addresses do not decrease.
NetSorted(keys) ==
    {o \in Orders({NetKeyEntry(k) : k \in keys}) :
        \A size \in {e.Net.Mask : e \in {NetKeyEntry(k) : k \in keys}} :
            \A i \in 1..(Len(Bucket(o, size)) - 1) :
                Bucket(o, size)[i].Net.IP <= Bucket(o, size)[i + 1].Net.IP}

\* The registries NewNetRegistry can return for a document with these keys.
NetBuilds(keys, ipVersion) ==
    {[kind |-> IF ipVersion = 4 THEN IPv4 ELSE IPv6,
      ipVersion |-> ipVersion,
      Networks |-> [size \in {o[i].Net.Mask : i \in 1..Len(o)} |-> Bucket(o, size)]] :
        o \in NetSorted(keys)}

\* The AS numbers and addresses looked up in the registries built.
BuildASNInputs == {Decimal(n) : n \in 0..MaxUint32}
BuildNetInputs(version) == {<<a>> : a \in Addresses(version)}

\* A document's keys and a query.
Document(registry, keys) == [kind |-> "keys", type |-> registry, keys |-> keys]

\* The answers of two registries built from the same document.
Built(registry, first, second) ==
    [op |-> "build", type |-> registry, first |-> first, second |-> second]

\* NewASNRegistry twice on one document, and Lookup on both registries.
BuildASN ==
    /\ result = NoResult
    /\ receiver.kind = "keys"
    /\ receiver.type = ASN
    /\ \E a1 \in ASNBuilds(receiver.keys) :
       \E a2 \in ASNBuilds(receiver.keys) :
            result' = Built(ASN, ASNRegistryLookup(a1, input),
                            ASNRegistryLookup(a2, input))
    /\ UNCHANGED <<receiver, input>>
    /\ UNCHANGED <<now, cacheVars, Timeout, clientVars, calls, saved, last>>

\* NewNetRegistry twice on one document, and Lookup on both registries.
BuildNet ==
    /\ result = NoResult
    /\ receiver.kind = "keys"
    /\ receiver.type \in {IPv4, IPv6}
    /\ LET version == IF receiver.type = IPv4 THEN 4 ELSE 6 IN
       \E n1 \in NetBuilds(receiver.keys, version) :
       \E n2 \in NetBuilds(receiver.keys, version) :
       \E order1 \in Orders(DOMAIN n1.Networks) :
       \E order2 \in Orders(DOMAIN n2.Networks) :
            result' = Built(receiver.type, NetRegistryLookup(n1, input, order1),
                            NetRegistryLookup(n2, input, order2))
    /\ UNCHANGED <<receiver, input>>
    /\ UNCHANGED <<now, cacheVars, Timeout, clientVars, calls, saved, last>>

InitBuild ==
    /\ InitCaches({})
    /\ InitClients(<<>>)
    /\ result = NoResult
    /\ \/ \E keys \in {K \in SUBSET ASNKeys : Cardinality(K) <= MaxRanges} :
          \E in \in BuildASNInputs :
                receiver = Document(ASN, keys) /\ input = in
       \/ \E version \in {4, 6} :
          \E keys \in {K \in SUBSET NetKeys(version) : Cardinality(K) <= MaxNets} :
          \E in \in BuildNetInputs(version) :
                /\ receiver = Document(IF version = 4 THEN IPv4 ELSE IPv6, keys)
                /\ input = in

NextBuild ==
    \/ BuildASN
    \/ BuildNet

SpecBuild == InitBuild /\ [][NextBuild]_vars

\* C21: two registries built from the same document give the same entry
\* and the same urls for every query.
C21_SameDocumentSameAnswers ==
    result.op = "build" => result.first = result.second

\* The ranges of the document that contain the AS number n.
Containing(keys, n) ==
    {r \in {parseASNRange(k) : k \in keys} : r.MinASN <= n /\ n <= r.MaxASN}

\* C29: whatever the range keys of the document, overlapping and nested
\* ones included, Lookup of a valid AS number gives a non-empty entry when
\* some range of the document contains the number, and an entry it gives is
\* a range of the document that contains the number.
C29_ContainedNumberIsFound ==
    (result.op = "build" /\ result.type = ASN) =>
        LET n == DecimalValue(input)
            containing == Containing(receiver.keys, n)
        IN  /\ ~result.first.err
            /\ containing # {} => result.first.Entry # <<>>
            /\ result.first.Entry # <<>> =>
                    \E r \in containing : ASNRangeString(r) = result.first.Entry

====
